---- MODULE Spec2Model ----
(***************************************************************************)
(* Verification model of the Self-Review Cycle of openspecui:              *)
(*   - desktop/autofix_logic.py : the pure checklist decision functions    *)
(*   - desktop/app.py           : AutoFixWindow, the orchestrator          *)
(*                                                                         *)
(* Text is modelled as a sequence of one-character strings, so that the    *)
(* string operations of the code (split, strip, lower, startswith, the     *)
(* regular expressions) are computed rather than assumed.                  *)
(***************************************************************************)
EXTENDS Integers, Sequences, FiniteSets, TLC

(***************************************************************************)
(* Bounds of the model                                                     *)
(***************************************************************************)
\* number of lines that follow the opening line of a reviewer text
MaxLines == 2
\* largest cycle_count given to decide_autofix_next
MaxCycleArg == 3
\* the max_cycles given to decide_autofix_next
MaxMaxArg == 2
\* number of items of a list given to filter_p0p1_items
MaxItems == 2

(***************************************************************************)
(* Characters and the str methods used by autofix_logic.py                 *)
(***************************************************************************)
NL == "\n"

\* the backquote character, written ~ (a TLA+ string cannot hold a backquote)
BQ == "~"

\* the characters matched by \s and removed by str.strip()
Whitespace == {" ", "\t", "\n"}

Lowers == <<"a", "b", "c", "d", "e", "f", "g", "h", "i", "j", "k", "l", "m",
            "n", "o", "p", "q", "r", "s", "t", "u", "v", "w", "x", "y", "z">>

Uppers == <<"A", "B", "C", "D", "E", "F", "G", "H", "I", "J", "K", "L", "M",
            "N", "O", "P", "Q", "R", "S", "T", "U", "V", "W", "X", "Y", "Z">>

Digits == {"0", "1", "2", "3", "4", "5", "6", "7", "8", "9"}

\* the characters matched by \w
WordChars == {Lowers[i] : i \in 1..26} \cup {Uppers[i] : i \in 1..26} \cup Digits \cup {"_"}

\* str.lower() on one character
LowerChar(c) ==
  IF \E i \in 1..26 : Uppers[i] = c
    THEN Lowers[CHOOSE i \in 1..26 : Uppers[i] = c]
    ELSE c

\* str.upper() on one character
UpperChar(c) ==
  IF \E i \in 1..26 : Lowers[i] = c
    THEN Uppers[CHOOSE i \in 1..26 : Lowers[i] = c]
    ELSE c

lower(s) == [i \in 1..Len(s) |-> LowerChar(s[i])]

upper(s) == [i \in 1..Len(s) |-> UpperChar(s[i])]

\* number of leading characters of s that belong to cs
RECURSIVE LeadingIn(_, _)
LeadingIn(s, cs) ==
  IF s = <<>> \/ Head(s) \notin cs THEN 0 ELSE 1 + LeadingIn(Tail(s), cs)

\* number of trailing characters of s that belong to cs
RECURSIVE TrailingIn(_, _)
TrailingIn(s, cs) ==
  IF s = <<>> \/ s[Len(s)] \notin cs THEN 0
  ELSE 1 + TrailingIn(SubSeq(s, 1, Len(s) - 1), cs)

lstrip(s) == SubSeq(s, LeadingIn(s, Whitespace) + 1, Len(s))

rstrip(s) == SubSeq(s, 1, Len(s) - TrailingIn(s, Whitespace))

\* str.strip()
strip(s) == rstrip(lstrip(s))

\* str.startswith(prefix)
startswith(s, prefix) ==
  Len(prefix) <= Len(s) /\ SubSeq(s, 1, Len(prefix)) = prefix

\* number of characters of s before the first occurrence of c
RECURSIVE CharsBefore(_, _)
CharsBefore(s, c) ==
  IF s = <<>> \/ Head(s) = c THEN 0 ELSE 1 + CharsBefore(Tail(s), c)

\* str.split('\n'): the pieces between newlines, always at least one piece
RECURSIVE split(_)
split(text) ==
  LET k == CharsBefore(text, NL)
  IN  IF k = Len(text) THEN <<text>>
      ELSE <<SubSeq(text, 1, k)>> \o split(SubSeq(text, k + 2, Len(text)))

(***************************************************************************)
(* Checkbox parsing: parse_checkbox_items, filter_p0p1_items               *)
(***************************************************************************)
\* variant of the fence test that sees no fence: code blocks are not skipped
IsFenceLine_never(line) == FALSE

\* the fence test of the loop: line.strip().startswith(three backquotes)
IsFenceLine(line) == startswith(strip(line), <<BQ, BQ, BQ>>)

\* the trigger test of the loop:
\* trigger_to_skip and line.strip().lower().startswith(trigger_to_skip.lower())
IsTriggerLine(line, trigger_to_skip) ==
  /\ trigger_to_skip # <<>>
  /\ startswith(lower(strip(line)), lower(trigger_to_skip))

\* the part of the line after its leading whitespace, the (\s*) group
AfterIndent(line) == lstrip(line)

\* re.match(r'^(\s*)-\s\[\s\]\s(.+)$', line)
MatchUnchecked(line) ==
  LET r == AfterIndent(line)
  IN  /\ Len(r) >= 7
      /\ r[1] = "-"
      /\ r[2] \in Whitespace
      /\ r[3] = "["
      /\ r[4] \in Whitespace
      /\ r[5] = "]"
      /\ r[6] \in Whitespace

\* variant of the checked pattern without re.IGNORECASE
MatchChecked_lowercase(line) ==
  LET r == AfterIndent(line)
  IN  /\ Len(r) >= 7
      /\ r[1] = "-"
      /\ r[2] \in Whitespace
      /\ r[3] = "["
      /\ r[4] = "x"
      /\ r[5] = "]"
      /\ r[6] \in Whitespace

\* re.match(r'^(\s*)-\s\[x\]\s(.+)$', line, re.IGNORECASE)
MatchChecked(line) ==
  LET r == AfterIndent(line)
  IN  /\ Len(r) >= 7
      /\ r[1] = "-"
      /\ r[2] \in Whitespace
      /\ r[3] = "["
      /\ LowerChar(r[4]) = "x"
      /\ r[5] = "]"
      /\ r[6] \in Whitespace

\* group(2).strip() of either match
ItemText(line) ==
  LET r == AfterIndent(line) IN strip(SubSeq(r, 7, Len(r)))

\* the body of the for loop of parse_checkbox_items, from line i on
RECURSIVE ParseLoop(_, _, _, _, _, _)
ParseLoop(lines, i, in_code_block, items, context_lines, trigger_to_skip) ==
  IF i > Len(lines) THEN [items |-> items, context_lines |-> context_lines]
  ELSE LET line == lines[i] IN
    IF IsFenceLine(line)
      THEN ParseLoop(lines, i + 1, ~in_code_block, items, context_lines, trigger_to_skip)
    ELSE IF in_code_block
      THEN ParseLoop(lines, i + 1, in_code_block, items, context_lines, trigger_to_skip)
    ELSE IF IsTriggerLine(line, trigger_to_skip)
      THEN ParseLoop(lines, i + 1, in_code_block, items, context_lines, trigger_to_skip)
    ELSE IF MatchUnchecked(line)
      THEN ParseLoop(lines, i + 1, in_code_block,
                     Append(items, [text |-> ItemText(line), checked |-> FALSE]),
                     context_lines, trigger_to_skip)
    ELSE IF MatchChecked(line)
      THEN ParseLoop(lines, i + 1, in_code_block,
                     Append(items, [text |-> ItemText(line), checked |-> TRUE]),
                     context_lines, trigger_to_skip)
    ELSE IF strip(line) # <<>>
      THEN ParseLoop(lines, i + 1, in_code_block, items,
                     Append(context_lines, line), trigger_to_skip)
    ELSE ParseLoop(lines, i + 1, in_code_block, items, context_lines, trigger_to_skip)

\* parse_checkbox_items(text, trigger_to_skip); trigger_to_skip None is <<>>
parse_checkbox_items(text, trigger_to_skip) ==
  ParseLoop(split(text), 1, FALSE, <<>>, <<>>, trigger_to_skip)

\* re.sub(r'^[\s*_\[\]]+', '', text.strip()).upper()
StripDecoration(text) ==
  LET t == strip(text)
      k == LeadingIn(t, Whitespace \cup {"*", "_", "[", "]"})
  IN  upper(SubSeq(t, k + 1, Len(t)))

\* variant of the search without the word boundaries
HasP0P1Token_anywhere(s) ==
  \E i \in 1..(Len(s) - 1) : s[i] = "P" /\ s[i + 1] \in {"0", "1"}

\* re.search(r'\bP[01]\b', s)
HasP0P1Token(s) ==
  \E i \in 1..(Len(s) - 1) :
    /\ s[i] = "P"
    /\ s[i + 1] \in {"0", "1"}
    /\ (i = 1 \/ s[i - 1] \notin WordChars)
    /\ (i + 1 = Len(s) \/ s[i + 2] \notin WordChars)

\* filter_p0p1_items(items)
filter_p0p1_items(items) ==
  SelectSeq(items, LAMBDA item : HasP0P1Token(StripDecoration(item.text)))

(***************************************************************************)
(* Scenario detection and the decision: detect_scenario,                   *)
(* decide_autofix_next.  A scenario table is the ordered sequence of the   *)
(* dict's (key, scenario) pairs; a scenario without trigger has <<>>.      *)
(***************************************************************************)
\* variant of the loop that does not test that the entry has a trigger
RECURSIVE DetectLoop_any_trigger(_, _, _)
DetectLoop_any_trigger(text, scenarios, i) ==
  IF i > Len(scenarios) THEN "default"
  ELSE IF scenarios[i].key = "default" THEN DetectLoop_any_trigger(text, scenarios, i + 1)
  ELSE IF startswith(lower(strip(text)), lower(scenarios[i].trigger))
    THEN scenarios[i].key
  ELSE DetectLoop_any_trigger(text, scenarios, i + 1)

\* variant of the loop that does not skip the entry keyed default
RECURSIVE DetectLoop_with_default(_, _, _)
DetectLoop_with_default(text, scenarios, i) ==
  IF i > Len(scenarios) THEN "default"
  ELSE IF /\ scenarios[i].trigger # <<>>
          /\ startswith(lower(strip(text)), lower(scenarios[i].trigger))
    THEN scenarios[i].key
  ELSE DetectLoop_with_default(text, scenarios, i + 1)

\* the for loop of detect_scenario, from entry i on
RECURSIVE DetectLoop(_, _, _)
DetectLoop(text, scenarios, i) ==
  IF i > Len(scenarios) THEN "default"
  ELSE IF scenarios[i].key = "default" THEN DetectLoop(text, scenarios, i + 1)
  ELSE IF /\ scenarios[i].trigger # <<>>
          /\ startswith(lower(strip(text)), lower(scenarios[i].trigger))
    THEN scenarios[i].key
  ELSE DetectLoop(text, scenarios, i + 1)

detect_scenario(text, scenarios) == DetectLoop(text, scenarios, 1)

\* scenarios[scenario_key].get('trigger')
TriggerOf(scenarios, key) ==
  LET i == CHOOSE j \in 1..Len(scenarios) : scenarios[j].key = key
  IN  scenarios[i].trigger

\* i['text'] for i in p0p1
TextsOf(items) == [i \in 1..Len(items) |-> items[i].text]

\* variant that stops only above max_cycles
decide_late_max(review_text, cycle_count, max_cycles, scenarios) ==
  LET scenario_key == detect_scenario(review_text, scenarios) IN
  IF scenario_key = "default"
    THEN [action |-> "stop", reason |-> "no_scenario_match", cycle_count |-> cycle_count]
  ELSE
    LET trigger == TriggerOf(scenarios, scenario_key)
        items == parse_checkbox_items(review_text, trigger).items
        unchecked == SelectSeq(items, LAMBDA it : ~it.checked)
        p0p1 == filter_p0p1_items(unchecked)
    IN  IF items = <<>>
          THEN [action |-> "stop", reason |-> "zero_checkboxes", cycle_count |-> cycle_count]
        ELSE IF p0p1 = <<>>
          THEN [action |-> "complete", cycle_count |-> cycle_count]
        ELSE IF cycle_count > max_cycles
          THEN [action |-> "stop", reason |-> "max_cycles", cycle_count |-> cycle_count,
                remaining_count |-> Len(p0p1)]
        ELSE [action |-> "continue", next_cycle_count |-> cycle_count + 1,
              items |-> TextsOf(p0p1), scenario_key |-> scenario_key]

\* variant whose remaining_count counts every unchecked item
decide_counts_unchecked(review_text, cycle_count, max_cycles, scenarios) ==
  LET scenario_key == detect_scenario(review_text, scenarios) IN
  IF scenario_key = "default"
    THEN [action |-> "stop", reason |-> "no_scenario_match", cycle_count |-> cycle_count]
  ELSE
    LET trigger == TriggerOf(scenarios, scenario_key)
        items == parse_checkbox_items(review_text, trigger).items
        unchecked == SelectSeq(items, LAMBDA it : ~it.checked)
        p0p1 == filter_p0p1_items(unchecked)
    IN  IF items = <<>>
          THEN [action |-> "stop", reason |-> "zero_checkboxes", cycle_count |-> cycle_count]
        ELSE IF p0p1 = <<>>
          THEN [action |-> "complete", cycle_count |-> cycle_count]
        ELSE IF cycle_count >= max_cycles
          THEN [action |-> "stop", reason |-> "max_cycles", cycle_count |-> cycle_count,
                remaining_count |-> Len(unchecked)]
        ELSE [action |-> "continue", next_cycle_count |-> cycle_count + 1,
              items |-> TextsOf(p0p1), scenario_key |-> scenario_key]

\* variant that tests max_cycles before completion
decide_max_first(review_text, cycle_count, max_cycles, scenarios) ==
  LET scenario_key == detect_scenario(review_text, scenarios) IN
  IF scenario_key = "default"
    THEN [action |-> "stop", reason |-> "no_scenario_match", cycle_count |-> cycle_count]
  ELSE
    LET trigger == TriggerOf(scenarios, scenario_key)
        items == parse_checkbox_items(review_text, trigger).items
        unchecked == SelectSeq(items, LAMBDA it : ~it.checked)
        p0p1 == filter_p0p1_items(unchecked)
    IN  IF items = <<>>
          THEN [action |-> "stop", reason |-> "zero_checkboxes", cycle_count |-> cycle_count]
        ELSE IF cycle_count >= max_cycles
          THEN [action |-> "stop", reason |-> "max_cycles", cycle_count |-> cycle_count,
                remaining_count |-> Len(p0p1)]
        ELSE IF p0p1 = <<>>
          THEN [action |-> "complete", cycle_count |-> cycle_count]
        ELSE [action |-> "continue", next_cycle_count |-> cycle_count + 1,
              items |-> TextsOf(p0p1), scenario_key |-> scenario_key]

\* decide_autofix_next
decide_autofix_next(review_text, cycle_count, max_cycles, scenarios) ==
  LET scenario_key == detect_scenario(review_text, scenarios) IN
  IF scenario_key = "default"
    THEN [action |-> "stop", reason |-> "no_scenario_match", cycle_count |-> cycle_count]
  ELSE
    LET trigger == TriggerOf(scenarios, scenario_key)
        items == parse_checkbox_items(review_text, trigger).items
        unchecked == SelectSeq(items, LAMBDA it : ~it.checked)
        p0p1 == filter_p0p1_items(unchecked)
    IN  IF items = <<>>
          THEN [action |-> "stop", reason |-> "zero_checkboxes", cycle_count |-> cycle_count]
        ELSE IF p0p1 = <<>>
          THEN [action |-> "complete", cycle_count |-> cycle_count]
        ELSE IF cycle_count >= max_cycles
          THEN [action |-> "stop", reason |-> "max_cycles", cycle_count |-> cycle_count,
                remaining_count |-> Len(p0p1)]
        ELSE [action |-> "continue", next_cycle_count |-> cycle_count + 1,
              items |-> TextsOf(p0p1), scenario_key |-> scenario_key]

(***************************************************************************)
(* Inputs of the pure functions: reviewer texts built from a fixed set of  *)
(* lines, and scenario tables.                                             *)
(***************************************************************************)
\* '\n'.join(lines)
RECURSIVE Join(_)
Join(lines) ==
  IF lines = <<>> THEN <<>>
  ELSE IF Len(lines) = 1 THEN lines[1]
  ELSE lines[1] \o <<NL>> \o Join(Tail(lines))

\* the opening line of a text: a trigger line or none
OpeningLines ==
  { <<>>,                                                       \* no opening line
    << <<"[", "T", "]">> >>,                                    \* a trigger line
    << <<" ", "[", "t", "]", " ", "a">> >> }                    \* trigger, indented, other case, with a suffix

\* the lines that follow it
SampleLines ==
  { <<"-", " ", "[", " ", "]", " ", "P", "0", " ", "a">>,       \* unchecked P0
    <<"-", " ", "[", "x", "]", " ", "P", "1">>,                 \* checked P1
    <<"-", " ", "[", "X", "]", " ", "P", "0", " ", "b">>,       \* checked, capital X
    <<"-", " ", "[", " ", "]", " ", "P", "2">>,                 \* unchecked P2
    <<"\t", "-", "\t", "[", " ", "]", "\t", "*", "p", "1", "*">>, \* unchecked, tabs, decorated, lower case
    <<BQ, BQ, BQ>>,                                             \* a bare fence
    <<" ", BQ, BQ, BQ, "a">>,                                   \* a fence with indentation and info string
    <<"a", " ", BQ, BQ, BQ>>,                                   \* backquotes after other text
    <<"-", "[", " ", "]", " ", "P", "0">>,                      \* no blank after the dash: no checkbox
    <<>> }                                                      \* an empty line

\* the sequences of at most n elements of S
RECURSIVE SeqsUpTo(_, _)
SeqsUpTo(S, n) ==
  IF n = 0 THEN {<<>>}
  ELSE LET shorter == SeqsUpTo(S, n - 1)
       IN  shorter \cup {Append(q, x) : q \in {r \in shorter : Len(r) = n - 1}, x \in S}

SampleTexts == {Join(o \o ls) : o \in OpeningLines, ls \in SeqsUpTo(SampleLines, MaxLines)}

TrigUpper == <<"[", "T", "]">>
TrigLower == <<"[", "t", "]">>
TrigDash == <<"-", " ", "[">>

\* ordered scenario tables: the default shape, one with a 'default' key, an
\* entry without trigger and two entries matching the same text, and one
\* whose trigger is a prefix of checkbox lines
SampleScenarioTables ==
  { << [key |-> "review_confirm", trigger |-> TrigUpper] >>,
    << [key |-> "default", trigger |-> TrigUpper],
       [key |-> "no_trigger", trigger |-> <<>>],
       [key |-> "first", trigger |-> TrigLower],
       [key |-> "second", trigger |-> TrigUpper] >>,
    << [key |-> "dash", trigger |-> TrigDash],
       [key |-> "review_confirm", trigger |-> TrigUpper] >> }

SampleTriggers == {<<>>, TrigUpper, TrigDash}

(***************************************************************************)
(* AutoFixWindow (desktop/app.py): the Self-Review Cycle orchestrator.     *)
(*                                                                         *)
(* The object is the record w.  Its fields are the attributes of the       *)
(* class, the timers its methods have started and not yet run              *)
(* (threading.Timer), and what it has sent out: completion notifications   *)
(* and the review / fix triggers handed to the frontend.  Every method is  *)
(* an operator from the record to the record after the call.  None and ''  *)
(* are both written "" for session ids (the code tests them by truth       *)
(* value only).                                                            *)
(***************************************************************************)
\* AutoFixWindow._max_cycles of the run: 10 in the constructor, a smaller
\* number of cycles in the model
MaxCycles == 2

\* the values of AutoFixWindow._stage_timeout_secs considered: 0 is the
\* value of the constructor (stage timer disabled), 30 a configured timeout
StageTimeoutChoices == {0, 30}

\* the tab ids generated by open_autofix_window for this run, and a tab of
\* another worker
CodexTab == "autofix-codex"
DroidTab == "autofix-droid"
OtherTab == "other-tab"

\* the session the frontend starts in the reviewer tab and in the fixer tab
CodexSession == "s1"
DroidSession == "s2"

\* the session ids hook events carry
SessionIds == {CodexSession, DroidSession}

\* default_scenarios of _load_scenarios: trigger '[fix_confirmation]'
FixConfirmation ==
  <<"[", "f", "i", "x", "_", "c", "o", "n", "f", "i", "r", "m", "a", "t", "i", "o", "n", "]">>

load_scenarios == << [key |-> "review_confirm", trigger |-> FixConfirmation] >>

\* coordinator.webview: created when the application starts, before any
\* window of this kind can be opened
webview == TRUE

NoTimer == [state |-> "none", cycle |-> 0, stage |-> "idle"]

\* AutoFixWindow.__init__
NewAutoFixWindow(timeout_secs) ==
  [ running |-> FALSE,
    cycle |-> 0,
    max_cycles |-> MaxCycles,
    stage |-> "idle",
    codex_session_id |-> "",
    droid_session_id |-> "",
    codex_initialized |-> FALSE,
    droid_initialized |-> FALSE,
    stage_timer |-> NoTimer,
    stage_timeout_secs |-> timeout_secs,
    \* timers started and not yet run
    start_loop_timer |-> FALSE,
    init_timer |-> FALSE,
    retry_timers |-> {},
    do_fix_timers |-> 0,
    next_cycle_timers |-> 0,
    \* what the run has sent out
    completions |-> <<>>,
    review_triggers |-> 0,
    fix_triggers |-> 0 ]

\* _cancel_stage_timer
cancel_stage_timer(w) ==
  IF w.stage_timer.state # "none" THEN [w EXCEPT !.stage_timer = NoTimer] ELSE w

\* _start_stage_timer: the closure on_timeout keeps the cycle of its start.
\* The record also notes the stage of the start, which the closure does
\* not keep and never reads
start_stage_timer(w) ==
  LET w1 == cancel_stage_timer(w)
  IN  IF w1.stage_timeout_secs <= 0 THEN w1
      ELSE [w1 EXCEPT !.stage_timer = [state |-> "pending", cycle |-> w1.cycle,
                                      stage |-> w1.stage]]

\* _complete: one completion notification (window.complete and
\* autofix-complete) carrying success, the message and the cycle count
complete(w, success, message) ==
  LET w1 == cancel_stage_timer(w)
  IN  [w1 EXCEPT !.running = FALSE,
                 !.stage = "idle",
                 !.completions = Append(@, [success |-> success,
                                            message |-> message,
                                            cycles |-> w1.cycle])]

\* _trigger_codex_re_review: True when the trigger was handed to the frontend
trigger_codex_re_review(w) == w.running /\ webview

\* _trigger_droid_fix: True when the trigger was handed to the frontend
trigger_droid_fix(w) == w.running /\ webview

\* _start_review_cycle
start_review_cycle(w) ==
  IF ~w.running THEN w
  ELSE LET w1 == [w EXCEPT !.cycle = @ + 1] IN
       IF w1.cycle > w1.max_cycles
         THEN complete(w1, FALSE, "max_cycles_reached")
       ELSE LET w2 == start_stage_timer([w1 EXCEPT !.stage = "reviewing"]) IN
            IF trigger_codex_re_review(w2)
              THEN [w2 EXCEPT !.review_triggers = @ + 1]
              ELSE complete(cancel_stage_timer(w2), FALSE, "review_send_failed")

\* _check_both_ready
check_both_ready(w) ==
  IF ~w.running THEN w
  ELSE IF w.codex_initialized /\ w.droid_initialized THEN start_review_cycle(w)
  ELSE w

\* _accept_codex_init
accept_codex_init(w, session_id) ==
  IF w.codex_initialized THEN w
  ELSE check_both_ready([w EXCEPT !.codex_initialized = TRUE,
                                  !.codex_session_id =
                                     IF session_id # "" THEN session_id ELSE @])

\* _accept_droid_init
accept_droid_init(w, session_id) ==
  IF w.droid_initialized THEN w
  ELSE check_both_ready([w EXCEPT !.droid_initialized = TRUE,
                                  !.droid_session_id =
                                     IF session_id # "" THEN session_id ELSE @])

\* _extract_session_id: data.session_id, else the thread id of the payload
extract_session_id(data) ==
  IF data.session_id # "" THEN data.session_id ELSE data.thread_id

\* the first tab of an ordered table whose entry has the session id, or ""
RECURSIVE TabOf(_, _)
TabOf(table, session_id) ==
  IF table = <<>> THEN ""
  ELSE IF Head(table).sessionId = session_id THEN Head(table).tab
  ELSE TabOf(Tail(table), session_id)

\* _resolve_tab_for_session: "" stands for None
resolve_tab_for_session(change_sessions, codex_sessions, session_id) ==
  IF session_id = "" THEN ""
  ELSE IF TabOf(change_sessions, session_id) # "" THEN TabOf(change_sessions, session_id)
  ELSE TabOf(codex_sessions, session_id)

\* _defer_init_event: starts the 0.3 s timer of one more retry.  Of the
\* event held by the closure, retry reads the session id only
defer_init_event_one_more(w, data, worker_type, retries_left) ==
  IF ~w.running THEN w
  ELSE IF retries_left < 0 THEN w
  ELSE [w EXCEPT !.retry_timers =
          @ \cup {[data |-> [session_id |-> extract_session_id(data), thread_id |-> ""],
                   worker_type |-> worker_type,
                   retries_left |-> retries_left]}]

defer_init_event(w, data, worker_type, retries_left) ==
  IF ~w.running THEN w
  ELSE IF retries_left <= 0 THEN w
  ELSE [w EXCEPT !.retry_timers =
          @ \cup {[data |-> [session_id |-> extract_session_id(data), thread_id |-> ""],
                   worker_type |-> worker_type,
                   retries_left |-> retries_left]}]

\* the closure retry of _defer_init_event, run by its timer
retry(w, change_sessions, codex_sessions, t) ==
  LET w0 == [w EXCEPT !.retry_timers = @ \ {t}] IN
  IF ~w0.running THEN w0
  ELSE LET session_id == extract_session_id(t.data)
           matched == resolve_tab_for_session(change_sessions, codex_sessions, session_id)
           expected_tab == IF t.worker_type = "codex" THEN CodexTab ELSE DroidTab
       IN  IF matched = expected_tab
             THEN IF t.worker_type = "codex"
                    THEN accept_codex_init(w0, session_id)
                    ELSE accept_droid_init(w0, session_id)
           ELSE IF matched # "" THEN w0
           ELSE defer_init_event(w0, t.data, t.worker_type, t.retries_left - 1)

\* is_codex_turn_complete and extract_codex_final_message, as far as the
\* orchestrator depends on them: whether the event counts as a finished
\* turn, and the final message it carries (<<>> when there is none)
is_codex_turn_complete(data) == data.done

extract_final_message(data) == data.msg

\* number of retries of an init event: the default of retries_left
InitRetries == 5

\* the timer do_fix of _on_review_complete, run by its timer
do_fix(w) ==
  LET w0 == [w EXCEPT !.do_fix_timers = @ - 1] IN
  IF trigger_droid_fix(w0)
    THEN [w0 EXCEPT !.fix_triggers = @ + 1]
    ELSE complete(cancel_stage_timer(w0), FALSE, "fix_send_failed")

\* variant that lets the decision run one cycle past max_cycles
on_review_complete_past_max(w, review_text) ==
  IF ~w.running THEN w
  ELSE
    LET w1 == [cancel_stage_timer(w) EXCEPT !.stage = "selecting"]
        decision == decide_autofix_next(review_text, w1.cycle, w1.max_cycles + 1, load_scenarios)
    IN  IF decision.action = "stop"
          THEN complete(w1, FALSE, decision.reason)
        ELSE IF decision.action = "complete"
          THEN complete(w1, TRUE, "complete")
        ELSE LET w2 == start_stage_timer([w1 EXCEPT !.stage = "fixing"])
             IN  [w2 EXCEPT !.do_fix_timers = @ + 1]

\* _on_review_complete
on_review_complete(w, review_text) ==
  IF ~w.running THEN w
  ELSE
    LET w1 == [cancel_stage_timer(w) EXCEPT !.stage = "selecting"]
        decision == decide_autofix_next(review_text, w1.cycle, w1.max_cycles, load_scenarios)
    IN  IF decision.action = "stop"
          THEN complete(w1, FALSE, decision.reason)
        ELSE IF decision.action = "complete"
          THEN complete(w1, TRUE, "complete")
        ELSE LET w2 == start_stage_timer([w1 EXCEPT !.stage = "fixing"])
             IN  [w2 EXCEPT !.do_fix_timers = @ + 1]

\* the closure next_cycle of _on_fix_complete, run by its timer
next_cycle(w) ==
  LET w0 == [w EXCEPT !.next_cycle_timers = @ - 1] IN
  IF ~w0.running THEN w0 ELSE start_review_cycle(w0)

\* _on_fix_complete
on_fix_complete_keeps_timer(w) ==
  IF ~w.running THEN w
  ELSE [w EXCEPT !.stage = "checking", !.next_cycle_timers = @ + 1]

on_fix_complete(w) ==
  IF ~w.running THEN w
  ELSE [cancel_stage_timer(w) EXCEPT !.stage = "checking",
                                     !.next_cycle_timers = @ + 1]

\* on_hook_event, with a Stop event taken in any stage
on_hook_event_stop_in_any_stage(w, change_sessions, codex_sessions, data) ==
  IF ~w.running THEN w
  ELSE
    LET session_id == extract_session_id(data)
        matched == resolve_tab_for_session(change_sessions, codex_sessions, session_id)
    IN
    IF data.event = "codex-notify" THEN
      IF ~w.codex_initialized THEN
        IF matched = CodexTab THEN accept_codex_init(w, session_id)
        ELSE IF matched # "" THEN w
        ELSE defer_init_event(w, data, "codex", InitRetries)
      ELSE IF w.codex_session_id # "" /\ session_id # "" /\ session_id # w.codex_session_id
        THEN w
      ELSE IF is_codex_turn_complete(data)
        THEN IF extract_final_message(data) # <<>> /\ w.stage = "reviewing"
               THEN on_review_complete(w, extract_final_message(data))
               ELSE w
      ELSE w
    ELSE IF data.event = "SessionStart" THEN
      IF ~w.droid_initialized THEN
        IF matched = DroidTab THEN accept_droid_init(w, session_id)
        ELSE IF matched # "" THEN w
        ELSE defer_init_event(w, data, "droid", InitRetries)
      ELSE w
    ELSE IF data.event = "Stop" THEN
      IF session_id # "" /\ session_id = w.droid_session_id
        THEN on_fix_complete(w)
        ELSE w
    ELSE w

\* on_hook_event
on_hook_event(w, change_sessions, codex_sessions, data) ==
  IF ~w.running THEN w
  ELSE
    LET session_id == extract_session_id(data)
        matched == resolve_tab_for_session(change_sessions, codex_sessions, session_id)
    IN
    IF data.event = "codex-notify" THEN
      IF ~w.codex_initialized THEN
        IF matched = CodexTab THEN accept_codex_init(w, session_id)
        ELSE IF matched # "" THEN w
        ELSE defer_init_event(w, data, "codex", InitRetries)
      ELSE IF w.codex_session_id # "" /\ session_id # "" /\ session_id # w.codex_session_id
        THEN w
      ELSE IF is_codex_turn_complete(data)
        THEN IF extract_final_message(data) # <<>> /\ w.stage = "reviewing"
               THEN on_review_complete(w, extract_final_message(data))
               ELSE w
      ELSE w
    ELSE IF data.event = "SessionStart" THEN
      IF ~w.droid_initialized THEN
        IF matched = DroidTab THEN accept_droid_init(w, session_id)
        ELSE IF matched # "" THEN w
        ELSE defer_init_event(w, data, "droid", InitRetries)
      ELSE w
    ELSE IF data.event = "Stop" THEN
      IF session_id # "" /\ session_id = w.droid_session_id /\ w.stage = "fixing"
        THEN on_fix_complete(w)
        ELSE w
    ELSE w

\* on_send_failed
on_send_failed_codex_only(w, worker_type, tab_id) ==
  IF ~w.running THEN w
  ELSE IF worker_type = "codex" /\ tab_id = CodexTab THEN
    LET w1 == cancel_stage_timer(w) IN
    IF w1.stage = "reviewing" THEN complete(w1, FALSE, "codex_send_failed") ELSE w1
  ELSE IF worker_type = "droid" /\ tab_id = DroidTab THEN
    cancel_stage_timer(w)
  ELSE w

on_send_failed(w, worker_type, tab_id) ==
  IF ~w.running THEN w
  ELSE IF worker_type = "codex" /\ tab_id = CodexTab THEN
    LET w1 == cancel_stage_timer(w) IN
    IF w1.stage = "reviewing" THEN complete(w1, FALSE, "codex_send_failed") ELSE w1
  ELSE IF worker_type = "droid" /\ tab_id = DroidTab THEN
    LET w1 == cancel_stage_timer(w) IN
    IF w1.stage = "fixing" THEN complete(w1, FALSE, "droid_send_failed") ELSE w1
  ELSE w

\* the closure on_timeout of _start_stage_timer, run by the stage timer
on_timeout(w) ==
  LET cycle_at_start == w.stage_timer.cycle
      w0 == [w EXCEPT !.stage_timer.state = "fired"]
  IN  IF ~w0.running THEN w0
      ELSE IF w0.cycle # cycle_at_start THEN w0
      ELSE IF w0.stage \notin {"reviewing", "fixing"} THEN w0
      ELSE complete(w0, FALSE, "stage_timeout")

\* the closure init_timeout of _start_loop, run by the 60 s timer
init_timeout_both_missing(w) ==
  LET w0 == [w EXCEPT !.init_timer = FALSE] IN
  IF ~w0.running THEN w0
  ELSE IF ~w0.codex_initialized /\ ~w0.droid_initialized
    THEN complete(w0, FALSE, "init_timeout")
  ELSE w0

init_timeout(w) ==
  LET w0 == [w EXCEPT !.init_timer = FALSE] IN
  IF ~w0.running THEN w0
  ELSE IF ~w0.codex_initialized \/ ~w0.droid_initialized
    THEN complete(w0, FALSE, "init_timeout")
  ELSE w0

\* _start_loop, run by the 0.5 s timer of show
start_loop(w) ==
  LET w0 == [w EXCEPT !.start_loop_timer = FALSE] IN
  IF ~w0.running THEN w0
  ELSE [w0 EXCEPT !.stage = "init", !.init_timer = TRUE]

\* show: the window is created, the run is marked running and _start_loop
\* is scheduled
show(w) == [w EXCEPT !.running = TRUE, !.start_loop_timer = TRUE]

\* stop, leaving the stage as it is
stop_keeps_stage(w) ==
  IF ~w.running THEN w
  ELSE [cancel_stage_timer(w) EXCEPT !.running = FALSE]

\* stop
stop(w) ==
  IF ~w.running THEN w
  ELSE [cancel_stage_timer(w) EXCEPT !.running = FALSE, !.stage = "idle"]

\* cleanup
cleanup(w) == [cancel_stage_timer(w) EXCEPT !.running = FALSE]

(***************************************************************************)
(* State                                                                   *)
(***************************************************************************)
VARIABLES
  w,                       \* the AutoFixWindow of the run
  shown,                   \* show() has created the window
  registered,              \* the window is in coordinator._autofix_windows
  active_change_sessions,  \* coordinator.active_change_sessions, in insertion order
  active_codex_sessions,   \* coordinator.active_codex_sessions, in insertion order
  stopped,                 \* a manual stop() has ended the run
  answered_reviews,        \* review triggers the reviewer has answered
  answered_fixes,          \* fix triggers the fixer has answered
  deferred,                \* init events deferred so far
  review_text,             \* the text given to the pure functions
  call,                    \* the call of a pure function and its result
  items_arg,               \* the item list given to filter_p0p1_items
  data_arg,                \* the hook event given to the event functions
  threads,                 \* where each thread that accepts a ready event stands
  pending,                 \* the maps of pending callbacks, one per session
  fired,                   \* the callbacks fired so far, in firing order
  reader,                  \* where the reader thread of each session stands
  now,                     \* time.time(), in seconds
  term_ready,              \* the terminal of each session has been started
  regs,                    \* the number of callback requests handled so far
  batch,                   \* the output batch of each session
  scheduled,               \* the scheduled flag of each session
  flush_threads,           \* the flush timers started and not yet finished
  main_queue,              \* the blocks added to the main operation queue
  delivered,               \* the byte units the web view has received, per session
  emitted,                 \* the bytes each reader has read from its PTY
  session,                 \* the fields of one TerminalSession
  procs,                   \* the processes of the session: parent and liveness by pid
  signals,                 \* the os.kill calls of the latest kill(), in order
  os_writes,               \* the os.write calls of the latest write(), in order
  wr,                      \* the latest write() call and where it stands
  hist,                    \* the calls made on the session so far
  change_terminals         \* the sessions created for the change tab, oldest first

vars == <<w, shown, registered, active_change_sessions, active_codex_sessions,
          stopped, answered_reviews, answered_fixes, deferred, review_text, call,
          items_arg, data_arg, threads, pending, fired, reader, now, term_ready, regs, batch, scheduled,
          flush_threads, main_queue, delivered, emitted, session, procs, signals,
          os_writes, wr, hist, change_terminals>>

orchVars == <<w, shown, registered, active_change_sessions, active_codex_sessions,
              stopped, answered_reviews, answered_fixes, deferred>>

\* the completion watcher and the output batches of AppCoordinator
watchVars == <<pending, fired, reader, now, term_ready, regs, change_terminals>>
batchVars == <<batch, scheduled, flush_threads, main_queue, delivered, emitted>>
sessVars == <<session, procs, signals, os_writes, wr, hist>>
coordVars == <<watchVars, batchVars, sessVars>>

logicVars == <<review_text, call, items_arg, data_arg, threads, coordVars>>

NoCall == [fn |-> "none"]

\* the thread of the hook server and the threads of two retry timers
ReadyThreads == {"http", "timer1", "timer2"}

IdleThread == [pc |-> "idle"]

NoThreads == [id \in ReadyThreads |-> IdleThread]

(***************************************************************************)
(* Bounds and inputs of the orchestrator                                   *)
(***************************************************************************)
\* number of init events of a run that arrive before their session is
\* tracked and are deferred; one is retried at a time
MaxDeferred == 1

Line_UncheckedP0 == <<"-", " ", "[", " ", "]", " ", "P", "0", " ", "a">>
Line_CheckedP0 == <<"-", " ", "[", "x", "]", " ", "P", "0", " ", "a">>

\* final messages of the reviewer: one for each outcome of the decision
ReviewTexts ==
  { Join(<<FixConfirmation, Line_UncheckedP0>>),
    Join(<<FixConfirmation, Line_CheckedP0>>),
    Join(<<FixConfirmation, <<"a">> >>),
    <<"a">> }

HookEvent(event, session_id, thread_id, done, msg) ==
  [event |-> event, session_id |-> session_id, thread_id |-> thread_id,
   done |-> done, msg |-> msg]

\* session id fields of an event: a session id, or none and then possibly
\* a thread id in the payload
IdFields ==
  {<<s, "">> : s \in SessionIds} \cup {<<"", t>> : t \in SessionIds \cup {""}}

\* the hook events delivered to the run
HookEvents ==
  {HookEvent("codex-notify", id[1], id[2], FALSE, <<>>) : id \in IdFields}
  \cup {HookEvent("codex-notify", id[1], id[2], TRUE, m) :
          id \in IdFields, m \in ReviewTexts \cup {<<>>}}
  \cup {HookEvent(e, id[1], id[2], FALSE, <<>>) :
          e \in {"SessionStart", "Stop"}, id \in IdFields}
  \cup {HookEvent("PostToolUse", DroidSession, "", FALSE, <<>>)}

(***************************************************************************)
(* Actions of the orchestrator                                             *)
(***************************************************************************)
\* open_autofix_window calls show() once on the new window
Show ==
  /\ ~shown
  /\ shown' = TRUE
  /\ w' = show(w)
  /\ UNCHANGED <<registered, active_change_sessions, active_codex_sessions,
                 stopped, answered_reviews, answered_fixes, deferred, logicVars>>

\* a step that changes the window only
WindowStep(next_w) ==
  /\ w' = next_w
  /\ UNCHANGED <<shown, registered, active_change_sessions, active_codex_sessions,
                 stopped, answered_reviews, answered_fixes, deferred, logicVars>>

\* a hook event that the window defers counts against MaxDeferred
HookStep(next_w) ==
  /\ w' = next_w
  /\ IF next_w.retry_timers # w.retry_timers
       THEN /\ w.retry_timers = {}
            /\ deferred < MaxDeferred
            /\ deferred' = deferred + 1
       ELSE UNCHANGED deferred
  /\ UNCHANGED <<shown, registered, active_change_sessions, active_codex_sessions,
                 stopped, answered_reviews, answered_fixes, logicVars>>

StartLoopTimer == w.start_loop_timer /\ WindowStep(start_loop(w))

InitTimeoutTimer == w.init_timer /\ WindowStep(init_timeout(w))

RetryTimer ==
  \E t \in w.retry_timers :
    WindowStep(retry(w, active_change_sessions, active_codex_sessions, t))

DoFixTimer == w.do_fix_timers > 0 /\ WindowStep(do_fix(w))

NextCycleTimer == w.next_cycle_timers > 0 /\ WindowStep(next_cycle(w))

StageTimer == w.stage_timer.state = "pending" /\ WindowStep(on_timeout(w))

\* notify_web_refresh hands a hook event to every registered window
HookNotify ==
  /\ registered
  /\ \E data \in HookEvents :
       HookStep(on_hook_event(w, active_change_sessions, active_codex_sessions, data))

\* the reviewer answers a review trigger: a finished turn of the bound
\* session with a final message
AnswerReview ==
  /\ registered
  /\ answered_reviews < w.review_triggers
  /\ answered_reviews' = answered_reviews + 1
  /\ \E m \in ReviewTexts :
       w' = on_hook_event(w, active_change_sessions, active_codex_sessions,
                          HookEvent("codex-notify", w.codex_session_id, "", TRUE, m))
  /\ UNCHANGED <<shown, registered, active_change_sessions, active_codex_sessions,
                 stopped, answered_fixes, deferred, logicVars>>

\* the fixer answers a fix trigger: a Stop event of the bound session
AnswerFix ==
  /\ registered
  /\ answered_fixes < w.fix_triggers
  /\ answered_fixes' = answered_fixes + 1
  /\ w' = on_hook_event(w, active_change_sessions, active_codex_sessions,
                        HookEvent("Stop", w.droid_session_id, "", FALSE, <<>>))
  /\ UNCHANGED <<shown, registered, active_change_sessions, active_codex_sessions,
                 stopped, answered_reviews, deferred, logicVars>>

\* the message autoFixSendFailed of the native bridge
SendFailed ==
  /\ registered
  /\ \E worker_type \in {"codex", "droid"}, tab_id \in {CodexTab, DroidTab, OtherTab} :
       WindowStep(on_send_failed(w, worker_type, tab_id))

\* the message stop of the window's bridge
Stop ==
  /\ shown
  /\ registered
  /\ w' = stop(w)
  /\ stopped' = (stopped \/ w.running)
  /\ UNCHANGED <<shown, registered, active_change_sessions, active_codex_sessions,
                 answered_reviews, answered_fixes, deferred, logicVars>>

\* windowWillClose_: stop() and cleanup(), which removes the window from
\* coordinator._autofix_windows
WindowClose ==
  /\ shown
  /\ registered
  /\ w' = cleanup(stop(w))
  /\ stopped' = (stopped \/ w.running)
  /\ registered' = FALSE
  /\ UNCHANGED <<shown, active_change_sessions, active_codex_sessions,
                 answered_reviews, answered_fixes, deferred, logicVars>>

\* dict assignment table[tab] = {'sessionId': ...}: in place for a known
\* tab, at the end for a new one
SetEntry(table, tab, session_id) ==
  IF \E i \in 1..Len(table) : table[i].tab = tab
    THEN [i \in 1..Len(table) |->
            IF table[i].tab = tab THEN [tab |-> tab, sessionId |-> session_id]
            ELSE table[i]]
    ELSE Append(table, [tab |-> tab, sessionId |-> session_id])

\* table.pop(tab, None)
PopEntry(table, tab) == SelectSeq(table, LAMBDA e : e.tab # tab)

\* the messages trackChangeSession / untrackChangeSession of the frontend
TrackChangeSession ==
  /\ active_change_sessions' = SetEntry(active_change_sessions, DroidTab, DroidSession)
  /\ UNCHANGED <<w, shown, registered, active_codex_sessions,
                 stopped, answered_reviews, answered_fixes, deferred, logicVars>>

UntrackChangeSession ==
  /\ active_change_sessions' = PopEntry(active_change_sessions, DroidTab)
  /\ UNCHANGED <<w, shown, registered, active_codex_sessions,
                 stopped, answered_reviews, answered_fixes, deferred, logicVars>>

\* the messages trackCodexSession / untrackCodexSession of the frontend
TrackCodexSession ==
  /\ active_codex_sessions' = SetEntry(active_codex_sessions, CodexTab, CodexSession)
  /\ UNCHANGED <<w, shown, registered, active_change_sessions,
                 stopped, answered_reviews, answered_fixes, deferred, logicVars>>

UntrackCodexSession ==
  /\ active_codex_sessions' = PopEntry(active_codex_sessions, CodexTab)
  /\ UNCHANGED <<w, shown, registered, active_change_sessions,
                 stopped, answered_reviews, answered_fixes, deferred, logicVars>>

\* the sessions of the coordinator: the main terminal, the review terminal
\* and one change tab
Sessions == {"main", "review", "tab"}

NoPid == 0
NoFd == 0

\* TerminalSession.__init__
NewTerminalSession ==
  [started |-> FALSE, alive |-> FALSE, master_fd |-> NoFd, pid |-> NoPid,
   cols |-> 80, rows |-> 24]

NoWrite == [state |-> "none"]

\* a session just constructed, no process, no call made yet
SessionIdle ==
  /\ session = NewTerminalSession
  /\ procs = <<>>
  /\ signals = <<>>
  /\ os_writes = <<>>
  /\ wr = NoWrite
  /\ hist = [n |-> 0, op |-> "none", starts |-> 0, kills |-> 0, forks |-> 0,
             readers |-> 0, raised |-> FALSE, exits |-> <<>>]

\* AppCoordinator.__init__: no pending callback, nothing read, no batch
CoordIdle ==
  /\ pending = [s \in Sessions |-> <<>>]
  /\ fired = <<>>
  /\ reader = [s \in Sessions |-> [state |-> "idle"]]
  /\ now = 0
  /\ term_ready = [s \in Sessions |-> FALSE]
  /\ regs = 0
  /\ change_terminals = <<>>
  /\ batch = [s \in Sessions |-> <<>>]
  /\ scheduled = [s \in Sessions |-> FALSE]
  /\ flush_threads = {}
  /\ main_queue = <<>>
  /\ delivered = [s \in Sessions |-> <<>>]
  /\ emitted = [s \in Sessions |-> <<>>]
  /\ SessionIdle

Init ==
  /\ \E timeout_secs \in StageTimeoutChoices : w = NewAutoFixWindow(timeout_secs)
  /\ shown = FALSE
  /\ registered = TRUE
  /\ active_change_sessions = <<>>
  /\ active_codex_sessions = <<>>
  /\ stopped = FALSE
  /\ answered_reviews = 0
  /\ answered_fixes = 0
  /\ deferred = 0
  /\ review_text = <<>>
  /\ call = NoCall
  /\ items_arg = <<>>
  /\ data_arg = <<>>
  /\ threads = NoThreads
  /\ CoordIdle

Next ==
  \/ Show
  \/ StartLoopTimer
  \/ InitTimeoutTimer
  \/ RetryTimer
  \/ DoFixTimer
  \/ NextCycleTimer
  \/ StageTimer
  \/ HookNotify
  \/ AnswerReview
  \/ AnswerFix
  \/ SendFailed
  \/ Stop
  \/ WindowClose
  \/ TrackChangeSession
  \/ UntrackChangeSession
  \/ TrackCodexSession
  \/ UntrackCodexSession

Spec == Init /\ [][Next]_vars

(***************************************************************************)
(* The pure functions of autofix_logic.py, called on drawn inputs          *)
(***************************************************************************)
InitLogic ==
  /\ w = NewAutoFixWindow(0)
  /\ shown = FALSE
  /\ registered = TRUE
  /\ active_change_sessions = <<>>
  /\ active_codex_sessions = <<>>
  /\ stopped = FALSE
  /\ answered_reviews = 0
  /\ answered_fixes = 0
  /\ deferred = 0
  /\ review_text \in SampleTexts
  /\ call = NoCall
  /\ items_arg = <<>>
  /\ data_arg = <<>>
  /\ threads = NoThreads
  /\ CoordIdle

CallDecide ==
  /\ call = NoCall
  /\ \E cycle_count \in 0..MaxCycleArg, max_cycles \in {MaxMaxArg},
        scenarios \in SampleScenarioTables :
       call' = [fn |-> "decide_autofix_next",
                cycle_count |-> cycle_count,
                max_cycles |-> max_cycles,
                scenarios |-> scenarios,
                ret |-> decide_autofix_next(review_text, cycle_count, max_cycles, scenarios)]
  /\ UNCHANGED <<orchVars, review_text, items_arg, data_arg, threads, coordVars>>

CallParse ==
  /\ call = NoCall
  /\ \E trigger_to_skip \in SampleTriggers :
       call' = [fn |-> "parse_checkbox_items",
                trigger_to_skip |-> trigger_to_skip,
                ret |-> parse_checkbox_items(review_text, trigger_to_skip)]
  /\ UNCHANGED <<orchVars, review_text, items_arg, data_arg, threads, coordVars>>

CallDetect ==
  /\ call = NoCall
  /\ \E scenarios \in SampleScenarioTables :
       call' = [fn |-> "detect_scenario",
                scenarios |-> scenarios,
                ret |-> detect_scenario(review_text, scenarios)]
  /\ UNCHANGED <<orchVars, review_text, items_arg, data_arg, threads, coordVars>>

NextLogic ==
  \/ CallDecide
  \/ CallParse
  \/ CallDetect

SpecLogic == InitLogic /\ [][NextLogic]_vars

\* the scheduling the code relies on: a started timer runs, and (the
\* premise of the termination claim) the reviewer and the fixer answer every
\* trigger they were sent.  Nothing forces unsolicited events, a stop, or
\* the stage timer.
Fairness ==
  /\ WF_vars(StartLoopTimer)
  /\ WF_vars(DoFixTimer)
  /\ WF_vars(NextCycleTimer)
  /\ WF_vars(AnswerReview)
  /\ WF_vars(AnswerFix)

FairSpec == Init /\ [][Next]_vars /\ Fairness

(***************************************************************************)
(* Claims about the orchestrator                                           *)
(***************************************************************************)
\* the cycle counts reported by the completion notifications sent so far
ReportedCycles == {w.completions[i].cycles : i \in 1..Len(w.completions)}

\* C1: the cycle count of a run starts at 0, never decreases, and is at most
\* max_cycles in every state, also in the cycle count reported by a
\* completion notification.
C1_CycleCountBounded ==
  /\ w.cycle = 0
  /\ [](w.cycle <= w.max_cycles /\ \A c \in ReportedCycles : c <= w.max_cycles)
  /\ [][w'.cycle >= w.cycle]_vars

\* C1 witness: a run that went through max_cycles reviews and reported the
\* failure of the last one with that cycle count
C1_Witness ==
  /\ w.cycle = w.max_cycles
  /\ w.completions # <<>>
  /\ w.completions[1].message = "max_cycles"
  /\ w.completions[1].cycles = w.max_cycles

\* C2: once a manual stop() has ended a running run, no completion
\* notification is emitted for it any more and it stays idle and not running.
C2_NoCompletionAfterStop ==
  [][stopped => /\ w'.completions = w.completions
                /\ w'.stage = "idle"
                /\ ~w'.running]_vars

\* C3: a run whose two workers were accepted, that is not stopped by hand
\* and whose triggers are all answered, emits a terminal result, after at
\* most max_cycles review triggers.
C3_RunTerminates ==
  /\ [](w.review_triggers <= w.max_cycles)
  /\ [](w.codex_initialized /\ w.droid_initialized
          => <>(w.completions # <<>> \/ stopped))

\* C3 witness: a run with both workers accepted, never stopped by hand, that
\* sent max_cycles review triggers, had every trigger answered, and ended
\* with a terminal result
C3_Witness ==
  /\ w.codex_initialized /\ w.droid_initialized
  /\ ~stopped
  /\ w.review_triggers = w.max_cycles
  /\ answered_reviews = w.review_triggers
  /\ w.fix_triggers > 0 /\ answered_fixes = w.fix_triggers
  /\ w.completions # <<>>

(***************************************************************************)
(* filter_p0p1_items, called on drawn item lists                           *)
(***************************************************************************)
SampleItemTexts ==
  {
    <<"P", "0", " ", "a">>,                              \* plain P0
    <<"*", "*", "P", "0", "*", "*">>,                    \* bold
    <<"*", "P", "1", "*">>,                              \* emphasis
    <<"[", "P", "0", "]">>,                              \* bracketed
    <<"P", "2", " ", "d">>,                              \* lower priority
    <<"P", "3">>,                                        \* lower priority
    <<"f", "i", "x", " ", "i", "t">>,                    \* unmarked
    <<"P", "0", "1">>,                                   \* digits go on: no token
    <<"X", "P", "0">>,                                   \* letters before: no token
    <<" ", "_", "p", "1", " ", "b">>,                    \* underscore before, lower case
    <<"_", "P", "0", "_">>,                              \* underscore after: no token
    <<"s", "e", "e", " ", "P", "1", ".">>,               \* marker inside the text
    <<>> }                                               \* empty

SampleItems ==
  {[text |-> t, checked |-> FALSE] : t \in SampleItemTexts}
    \cup {[text |-> <<"P", "0", " ", "a">>, checked |-> TRUE]}

\* the state of the orchestrator and of the other functions while a
\* function is exercised alone
OrchIdle ==
  /\ w = NewAutoFixWindow(0)
  /\ shown = FALSE
  /\ registered = TRUE
  /\ active_change_sessions = <<>>
  /\ active_codex_sessions = <<>>
  /\ stopped = FALSE
  /\ answered_reviews = 0
  /\ answered_fixes = 0
  /\ deferred = 0

InitFilter ==
  /\ OrchIdle
  /\ review_text = <<>>
  /\ call = NoCall
  /\ items_arg \in SeqsUpTo(SampleItems, MaxItems)
  /\ data_arg = <<>>
  /\ threads = NoThreads
  /\ CoordIdle

CallFilter ==
  /\ call = NoCall
  /\ call' = [fn |-> "filter_p0p1_items", ret |-> filter_p0p1_items(items_arg)]
  /\ UNCHANGED <<orchVars, review_text, items_arg, data_arg, threads, coordVars>>

NextFilter == CallFilter

SpecFilter == InitFilter /\ [][NextFilter]_vars

(***************************************************************************)
(* Claims about the pure functions.  What a function has to return is      *)
(* stated here on the lines of the text, without the loops of the code.    *)
(***************************************************************************)
\* s without its leading and trailing whitespace
Trimmed(s) ==
  IF \A i \in 1..Len(s) : s[i] \in Whitespace THEN <<>>
  ELSE LET a == CHOOSE i \in 1..Len(s) :
                  s[i] \notin Whitespace /\ \A j \in 1..(i - 1) : s[j] \in Whitespace
           b == CHOOSE i \in 1..Len(s) :
                  s[i] \notin Whitespace /\ \A j \in (i + 1)..Len(s) : s[j] \in Whitespace
       IN  SubSeq(s, a, b)

\* p is a prefix of s, letter case ignored
IsPrefixCI(p, s) ==
  /\ Len(p) <= Len(s)
  /\ \A i \in 1..Len(p) : LowerChar(p[i]) = LowerChar(s[i])

\* the entries of a scenario table that the text selects
MatchingEntries(text, scenarios) ==
  {i \in 1..Len(scenarios) :
     /\ scenarios[i].key # "default"
     /\ scenarios[i].trigger # <<>>
     /\ IsPrefixCI(scenarios[i].trigger, Trimmed(text))}

FirstMatch(text, scenarios) ==
  CHOOSE i \in MatchingEntries(text, scenarios) :
    \A j \in MatchingEntries(text, scenarios) : i <= j

ExpectedScenario(text, scenarios) ==
  IF MatchingEntries(text, scenarios) = {} THEN "default"
  ELSE scenarios[FirstMatch(text, scenarios)].key

\* the line is a bare fence: nothing but three backquotes
IsBareFence(line) == Trimmed(line) = <<BQ, BQ, BQ>>

\* the line opens with a fence: three backquotes, then anything
IsFenceStart(line) ==
  LET t == Trimmed(line)
  IN  Len(t) >= 3 /\ t[1] = BQ /\ t[2] = BQ /\ t[3] = BQ

\* the line is '- [m] text' with m among marks, after any indentation
IsBoxLine(line, marks) ==
  \E k \in 0..Len(line) :
    /\ \A j \in 1..k : line[j] \in Whitespace
    /\ Len(line) >= k + 7
    /\ line[k + 1] = "-"
    /\ line[k + 2] \in Whitespace
    /\ line[k + 3] = "["
    /\ line[k + 4] \in marks
    /\ line[k + 5] = "]"
    /\ line[k + 6] \in Whitespace

\* the text of a box line: what follows the box, trimmed
BoxText(line) ==
  LET k == CHOOSE n \in 0..Len(line) :
             line[n + 1] = "-" /\ \A j \in 1..n : line[j] \in Whitespace
  IN  Trimmed(SubSeq(line, k + 7, Len(line)))

\* line i lies inside a code block: an odd number of fences precedes it
InsideBlock(lines, i, Fence(_)) ==
  Cardinality({j \in 1..(i - 1) : Fence(lines[j])}) % 2 = 1

\* the line starts with the trigger, trimmed and letter case ignored
StartsWithTrigger(line, trigger) ==
  trigger # <<>> /\ IsPrefixCI(trigger, Trimmed(line))

\* the items the text holds, in document order, for a notion of fence
ExpectedItems(text, trigger, Fence(_)) ==
  LET lines == split(text)
      IsItem(i) ==
        /\ ~Fence(lines[i])
        /\ ~InsideBlock(lines, i, Fence)
        /\ ~StartsWithTrigger(lines[i], trigger)
        /\ IsBoxLine(lines[i], Whitespace \cup {"x", "X"})
      idx == SelectSeq([i \in 1..Len(lines) |-> i], IsItem)
  IN  [n \in 1..Len(idx) |->
         [text |-> BoxText(lines[idx[n]]),
          checked |-> IsBoxLine(lines[idx[n]], {"x", "X"})]]

\* the item is marked P0 or P1
IsP0P1(item) == HasP0P1Token(StripDecoration(item.text))

\* what decide_autofix_next was called on
DecideCalled == call.fn = "decide_autofix_next"

ScenarioMatched == MatchingEntries(review_text, call.scenarios) # {}

MatchedTrigger == call.scenarios[FirstMatch(review_text, call.scenarios)].trigger

ItemsOfCall == ExpectedItems(review_text, MatchedTrigger, IsFenceStart)

UncheckedP0P1OfCall == SelectSeq(ItemsOfCall, LAMBDA it : ~it.checked /\ IsP0P1(it))

\* C4: decide_autofix_next returns continue exactly when a scenario matches,
\* an unchecked P0/P1 item was parsed and cycle_count < max_cycles; the result
\* then carries cycle_count + 1, the matched scenario key and the texts of the
\* unchecked P0/P1 items in document order.
C4_ContinueExactlyWhen ==
  DecideCalled =>
    /\ call.ret.action = "continue"
         <=> (/\ ScenarioMatched
              /\ UncheckedP0P1OfCall # <<>>
              /\ call.cycle_count < call.max_cycles)
    /\ call.ret.action = "continue" =>
         /\ call.ret.next_cycle_count = call.cycle_count + 1
         /\ call.ret.scenario_key = ExpectedScenario(review_text, call.scenarios)
         /\ call.ret.items = TextsOf(UncheckedP0P1OfCall)

\* C4 witness: a continue whose items leave out a parsed item
C4_Witness ==
  /\ DecideCalled
  /\ call.ret.action = "continue"
  /\ call.cycle_count = call.max_cycles - 1
  /\ Len(call.ret.items) >= 1
  /\ Len(ItemsOfCall) > Len(call.ret.items)

\* C5: with a matching scenario, an unchecked P0/P1 item and
\* cycle_count >= max_cycles the result is stop(max_cycles) and
\* remaining_count is the number of unchecked P0/P1 items.
C5_StopMaxCycles ==
  (/\ DecideCalled
   /\ ScenarioMatched
   /\ UncheckedP0P1OfCall # <<>>
   /\ call.cycle_count >= call.max_cycles)
  => /\ call.ret.action = "stop"
     /\ call.ret.reason = "max_cycles"
     /\ call.ret.remaining_count = Len(UncheckedP0P1OfCall)

\* C5 witness: a stop above max_cycles that leaves an unchecked lower
\* priority item out of the count
C5_Witness ==
  /\ DecideCalled
  /\ call.cycle_count > call.max_cycles
  /\ call.ret.action = "stop"
  /\ call.ret.reason = "max_cycles"
  /\ call.ret.remaining_count = 1
  /\ \E i \in 1..Len(ItemsOfCall) : ~ItemsOfCall[i].checked /\ ~IsP0P1(ItemsOfCall[i])

\* C6: with a matching scenario, at least one parsed item and no unchecked
\* P0/P1 item the result is complete with the cycle count unchanged, for
\* every cycle count, also at and above max_cycles.
C6_CompleteBeforeMaxCycles ==
  (/\ DecideCalled
   /\ ScenarioMatched
   /\ ItemsOfCall # <<>>
   /\ UncheckedP0P1OfCall = <<>>)
  => /\ call.ret.action = "complete"
     /\ call.ret.cycle_count = call.cycle_count

\* C6 witness: a complete at or above max_cycles with a lower priority left
\* unchecked
C6_Witness ==
  /\ DecideCalled
  /\ call.ret.action = "complete"
  /\ call.cycle_count >= call.max_cycles
  /\ \E i \in 1..Len(ItemsOfCall) : ~ItemsOfCall[i].checked

\* C7: when no scenario matches the result is stop(no_scenario_match),
\* whatever the checklist and the cycle count.
C7_StopNoScenarioMatch ==
  (DecideCalled /\ ~ScenarioMatched)
  => /\ call.ret.action = "stop"
     /\ call.ret.reason = "no_scenario_match"

\* C7 witness: no scenario matches a text that holds an unchecked P0 item
C7_Witness ==
  /\ DecideCalled
  /\ ~ScenarioMatched
  /\ call.ret.action = "stop"
  /\ call.ret.reason = "no_scenario_match"
  /\ \E i \in 1..Len(ExpectedItems(review_text, <<>>, IsFenceStart)) :
       LET it == ExpectedItems(review_text, <<>>, IsFenceStart)[i]
       IN  ~it.checked /\ IsP0P1(it)

\* C8: with a matching scenario and no parsed item the result is
\* stop(zero_checkboxes), for every cycle count.
C8_StopZeroCheckboxes ==
  (/\ DecideCalled
   /\ ScenarioMatched
   /\ ItemsOfCall = <<>>)
  => /\ call.ret.action = "stop"
     /\ call.ret.reason = "zero_checkboxes"

\* C8 witness: zero_checkboxes for a text whose only checkbox line lies
\* inside a code block
C8_Witness ==
  /\ DecideCalled
  /\ call.ret.action = "stop"
  /\ call.ret.reason = "zero_checkboxes"
  /\ \E i \in 1..Len(split(review_text)) :
       /\ IsBoxLine(split(review_text)[i], Whitespace)
       /\ InsideBlock(split(review_text), i, IsFenceStart)
       /\ ~StartsWithTrigger(split(review_text)[i], MatchedTrigger)

ParseCalled == call.fn = "parse_checkbox_items"

\* C9 as claimed: the flag toggles exactly on the lines that are nothing but
\* a fence, and every checkbox line outside a block is returned.
C9_TogglesOnBareFences ==
  (ParseCalled /\ call.trigger_to_skip = <<>>)
  => call.ret.items = ExpectedItems(review_text, <<>>, IsBareFence)

\* C9 as amended: the flag toggles on every line that starts with a fence;
\* the items are, in document order, the checkbox lines that are outside a
\* block and do not start with the trigger to skip.
C9_TogglesOnFenceStarts ==
  ParseCalled
  => call.ret.items = ExpectedItems(review_text, call.trigger_to_skip, IsFenceStart)

\* C9 witness: a fence with an info string hides a checkbox line
C9_Witness ==
  /\ ParseCalled
  /\ call.ret.items = <<>>
  /\ \E i \in 1..Len(split(review_text)) :
       /\ IsBoxLine(split(review_text)[i], Whitespace)
       /\ ~StartsWithTrigger(split(review_text)[i], call.trigger_to_skip)
       /\ InsideBlock(split(review_text), i, IsFenceStart)
       /\ ~InsideBlock(split(review_text), i, IsBareFence)

\* C10: detect_scenario returns the key of the first entry, other than the
\* one keyed default, whose trigger is not empty and is a prefix of the
\* trimmed text, letter case ignored; default when there is none.
C10_FirstMatchingScenario ==
  call.fn = "detect_scenario"
  => call.ret = ExpectedScenario(review_text, call.scenarios)

\* C10 witness: the text matches the trigger of a default entry and of two
\* later entries, in another letter case and after indentation; the first of
\* the later ones is returned
C10_Witness ==
  /\ call.fn = "detect_scenario"
  /\ call.ret = "first"
  /\ Cardinality(MatchingEntries(review_text, call.scenarios)) = 2
  /\ review_text # Trimmed(review_text)
  /\ \E i \in 1..Len(call.scenarios) :
       /\ call.scenarios[i].key = "default"
       /\ IsPrefixCI(call.scenarios[i].trigger, Trimmed(review_text))

\* what is left of an item text once it is trimmed, its leading blanks,
\* '*', '_', '[' and ']' are dropped and it is upper-cased
Undecorated(text) ==
  LET t == Trimmed(text)
      Deco == Whitespace \cup {"*", "_", "[", "]"}
      rest == {i \in 1..Len(t) : t[i] \notin Deco}
      k == IF rest = {} THEN Len(t) + 1
           ELSE CHOOSE i \in rest : \A j \in rest : i <= j
  IN  [i \in 1..(Len(t) - k + 1) |-> UpperChar(t[k + i - 1])]

\* s holds P0 or P1 with no letter, digit or underscore next to it
HasStandaloneP0P1(s) ==
  \E i \in 1..Len(s) :
    /\ i + 1 <= Len(s)
    /\ s[i] = "P"
    /\ s[i + 1] = "0" \/ s[i + 1] = "1"
    /\ i > 1 => s[i - 1] \notin WordChars
    /\ i + 2 <= Len(s) => s[i + 2] \notin WordChars

KeptIndexes(items) == {i \in 1..Len(items) : HasStandaloneP0P1(Undecorated(items[i].text))}

FilterCalled == call.fn = "filter_p0p1_items"

\* C11: filter_p0p1_items returns, in input order, exactly the items whose
\* undecorated upper-cased text holds P0 or P1 as a standalone token; it
\* keeps **P0**, *P1* and [P0] and drops P2, P3 and unmarked items.
C11_FilterKeepsP0P1 ==
  FilterCalled =>
    LET kept == KeptIndexes(items_arg)
        nth(n) == CHOOSE i \in kept : Cardinality({j \in kept : j <= i}) = n
    IN  /\ Len(call.ret) = Cardinality(kept)
        /\ \A n \in 1..Len(call.ret) : call.ret[n] = items_arg[nth(n)]
        /\ \A i \in 1..Len(items_arg) :
             /\ items_arg[i].text \in {<<"*", "*", "P", "0", "*", "*">>,
                                       <<"*", "P", "1", "*">>,
                                       <<"[", "P", "0", "]">>}
                  => i \in kept
             /\ items_arg[i].text \in {<<"P", "2", " ", "d">>, <<"P", "3">>,
                                       <<"f", "i", "x", " ", "i", "t">>}
                  => i \notin kept

\* C11 witness: a decorated marker is kept after a lower priority was dropped
C11_Witness ==
  /\ FilterCalled
  /\ Len(items_arg) = 2
  /\ items_arg[1].text = <<"P", "2", " ", "d">>
  /\ items_arg[2].text = <<"*", "*", "P", "0", "*", "*">>
  /\ call.ret = <<items_arg[2]>>

(***************************************************************************)
(* The completion watcher of AppCoordinator (desktop/app.py): the maps of  *)
(* pending callbacks, the prompt detection in the output handlers and the  *)
(* staleness sweep.                                                        *)
(*                                                                         *)
(* A chunk is a sequence of bytes; a byte is a one-character string, the   *)
(* three bytes of the heavy angle prompt character are "E2", "9D", "AF".   *)
(* Characters without a printable form have stand-ins.                     *)
(***************************************************************************)
ESC == "^"          \* \x1b
BEL == "@"          \* \x07
HEAVY == "}"        \* the heavy right-pointing angle, U+276F
REPL == "#"         \* the replacement character, U+FFFD

HeavyBytes == <<"E2", "9D", "AF">>

\* data.decode('utf-8', errors='replace'), from byte i on
RECURSIVE Utf8Decode(_, _)
Utf8Decode(data, i) ==
  IF i > Len(data) THEN <<>>
  ELSE IF data[i] = "E2" THEN
         IF i + 1 <= Len(data) /\ data[i + 1] = "9D" THEN
           IF i + 2 <= Len(data) /\ data[i + 2] = "AF"
             THEN <<HEAVY>> \o Utf8Decode(data, i + 3)
             ELSE <<REPL>> \o Utf8Decode(data, i + 2)
         ELSE <<REPL>> \o Utf8Decode(data, i + 1)
  ELSE IF data[i] \in {"9D", "AF"} THEN <<REPL>> \o Utf8Decode(data, i + 1)
  ELSE <<data[i]>> \o Utf8Decode(data, i + 1)

decode(data) == Utf8Decode(data, 1)

Letters == {Lowers[i] : i \in 1..26} \cup {Uppers[i] : i \in 1..26}

\* the number of characters of cs that s holds from position i on
RunFrom(s, i, cs) == LeadingIn(SubSeq(s, i, Len(s)), cs)

\* the length of the shortest match of  .*?\x07  from position i on, 0 if none
UpToBel(s, i) ==
  LET ends == {j \in i..Len(s) : s[j] = BEL /\ \A k \in i..(j - 1) : s[k] # NL}
  IN  IF ends = {} THEN 0
      ELSE (CHOOSE j \in ends : \A k \in ends : j <= k) - i + 1

\* the length of the match of _ansi_re at position i, 0 if there is none;
\* the alternatives of the pattern are tried in their order
AnsiMatchLen(s, i) ==
  IF s[i] # ESC \/ i + 1 > Len(s) THEN 0
  ELSE
    LET k == RunFrom(s, i + 2, Digits \cup {";"})
        q == RunFrom(s, i + 3, Digits \cup {";"})
    IN  IF s[i + 1] = "[" /\ i + 2 + k <= Len(s) /\ s[i + 2 + k] \in Letters
          THEN k + 3
        ELSE IF s[i + 1] = "]" /\ UpToBel(s, i + 2) > 0
          THEN 2 + UpToBel(s, i + 2)
        ELSE IF s[i + 1] = "[" /\ UpToBel(s, i + 2) > 0
          THEN 2 + UpToBel(s, i + 2)
        ELSE IF /\ s[i + 1] \in {"(", ")"}
                /\ i + 2 <= Len(s)
                /\ s[i + 2] \in {"A", "B", "0", "1", "2"}
          THEN 3
        ELSE IF /\ s[i + 1] = "["
                /\ i + 2 <= Len(s)
                /\ s[i + 2] = "?"
                /\ i + 3 + q <= Len(s)
                /\ s[i + 3 + q] \in {"h", "l"}
          THEN q + 4
        ELSE 0

\* _ansi_re.sub('', s), from position i on
RECURSIVE AnsiSub(_, _)
AnsiSub(s, i) ==
  IF i > Len(s) THEN <<>>
  ELSE IF AnsiMatchLen(s, i) > 0 THEN AnsiSub(s, i + AnsiMatchLen(s, i))
  ELSE <<s[i]>> \o AnsiSub(s, i + 1)

ansi_sub(s) == AnsiSub(s, 1)

\* the characters \s matches
Spaces == Whitespace \cup {"\r"}

\* s[-n:]
LastChars(s, n) == IF Len(s) <= n THEN s ELSE SubSeq(s, Len(s) - n + 1, Len(s))

\* pattern.search(tail) for a pattern  [chars]\s*$
EndsInOneOf(tail, chars) ==
  \E i \in 1..Len(tail) :
    tail[i] \in chars /\ \A j \in (i + 1)..Len(tail) : tail[j] \in Spaces

\* _shell_prompt_re.search(tail)
shell_prompt_search(tail) == EndsInOneOf(tail, {"$", "%", HEAVY, ">"})

HowCanIHelp ==
  <<"H", "o", "w", " ", "c", "a", "n", " ", "I", " ", "h", "e", "l", "p">>

Contains(s, sub) ==
  \E i \in 1..(Len(s) - Len(sub) + 1) : SubSeq(s, i, i + Len(sub) - 1) = sub

\* _droid_prompt_re.search(tail)
droid_prompt_search(tail) ==
  EndsInOneOf(tail, {">", HEAVY}) \/ Contains(tail, HowCanIHelp)

(***************************************************************************)
(* The watcher as a state machine.  The bridge messages run on the main    *)
(* thread, the output handler of a session on that session's reader        *)
(* thread; the maps are shared without a lock, so a message can come       *)
(* between two entries of the handler's loop.                              *)
(***************************************************************************)
\* requests of the frontend that register or fire a callback in a run
MaxRegs == 3
\* chunks read in a run
MaxChunks == 2
\* _CB_MAX_BUFFER, 512 * 1024 in the code
CB_MAX_BUFFER == 3
\* the length of the tail the prompt is searched in, 200 in the code
TailLen == 2

\* the entry without 'created_at'
NoCreatedAt == -1

\* the sizes the frontend asks for
SampleSizes == {<<80, 24>>, <<100, 30>>}

\* a TerminalSession just started for the change tab: exited tells that its
\* shell has exited, termed that kill() has sent it SIGTERM
NewChangeTerminal ==
  [alive |-> TRUE, exited |-> FALSE, termed |-> FALSE, cols |-> 80, rows |-> 24,
   input |-> 0]

\* tab_id in self.change_terminals; the session of the tab is the newest one
InRegistry == term_ready["tab"]
Registered == change_terminals[Len(change_terminals)]

\* self.change_terminals[tab_id].write(...): a session that is alive takes
\* the input, another drops it
WriteToRegistered ==
  [change_terminals EXCEPT ![Len(change_terminals)].input =
     IF Registered.alive THEN @ + 1 ELSE @]

\* the run-with-callback requests of the frontend
SampleRequests ==
  { [session |-> "main", id |-> "cb1", pattern |-> "shell"],
    [session |-> "main", id |-> "cb2", pattern |-> "droid"],
    [session |-> "tab", id |-> "cb1", pattern |-> "shell"] }

ShellReadyId(s) == IF s = "review" THEN "review-shell-ready" ELSE "tab-shell-ready"

\* the value stored under a callback id; reg numbers the registration, at is
\* the time of the registration and full is everything the session has read
\* since
NewCallback(id, pattern, created_at, reg) ==
  [id |-> id, pattern |-> pattern, buffer |-> <<>>, created_at |-> created_at,
   reg |-> reg, at |-> now, full |-> <<>>]

\* d[id] = value: in place for a known id, at the end for a new one
SetCallback(d, value) ==
  IF \E i \in 1..Len(d) : d[i].id = value.id
    THEN [i \in 1..Len(d) |-> IF d[i].id = value.id THEN value ELSE d[i]]
    ELSE Append(d, value)

\* _cap_callback_buffer
cap_callback_buffer(buf) ==
  IF Len(buf) > CB_MAX_BUFFER THEN LastChars(buf, CB_MAX_BUFFER) ELSE buf

\* the test of the handlers' loop on one entry
PromptMatched(pattern, buffer) ==
  LET clean == ansi_sub(buffer)
      tail == LastChars(clean, TailLen)
  IN  IF pattern = "shell" THEN shell_prompt_search(tail)
      ELSE IF pattern = "droid" THEN droid_prompt_search(tail)
      ELSE FALSE

SampleChunks ==
  { <<"a">>,
    <<"$", " ">>,
    <<">", " ">>,
    <<">", ESC, "[">>,
    <<"m", "E2", "9D">>,
    <<"AF", "\n">> }

ChunksRead == Len(emitted["main"]) + Len(emitted["review"]) + Len(emitted["tab"])

\* run_command_with_callback, run_review_command_with_callback,
\* run_change_command_with_callback
RunCommandWithCallback ==
  /\ regs < MaxRegs
  /\ \E q \in SampleRequests :
       /\ pending' = [pending EXCEPT ![q.session] =
                        SetCallback(@, NewCallback(q.id, q.pattern, now, regs + 1))]
       /\ change_terminals' =
            IF q.session = "tab" /\ InRegistry THEN WriteToRegistered ELSE change_terminals
  /\ regs' = regs + 1
  /\ UNCHANGED <<fired, reader, now, term_ready, batchVars, sessVars,
                 orchVars, review_text, call, items_arg, data_arg, threads>>

\* the first terminalResize message: start_terminal
StartTerminal ==
  /\ ~term_ready["main"]
  /\ term_ready' = [term_ready EXCEPT !["main"] = TRUE]
  /\ UNCHANGED <<pending, fired, reader, now, regs, change_terminals, batchVars, sessVars,
                 orchVars, review_text, call, items_arg, data_arg, threads>>

\* the message startReviewTerminal
StartReviewTerminal ==
  /\ regs < MaxRegs
  /\ IF term_ready["review"]
       THEN /\ fired' = Append(fired, [session |-> "review",
                                       id |-> ShellReadyId("review"), reg |-> 0,
                                       output |-> <<>>])
            /\ UNCHANGED <<pending, term_ready>>
       ELSE /\ term_ready' = [term_ready EXCEPT !["review"] = TRUE]
            /\ pending' = [pending EXCEPT !["review"] =
                 SetCallback(@, NewCallback(ShellReadyId("review"), "shell",
                                            NoCreatedAt, regs + 1))]
            /\ UNCHANGED fired
  /\ regs' = regs + 1
  /\ UNCHANGED <<reader, now, change_terminals, batchVars, sessVars, orchVars, review_text,
                 call, items_arg, data_arg, threads>>

\* the message startChangeTerminal: start_change_terminal, then the
\* registration of the shell-ready callback
StartChangeTerminal ==
  /\ regs < MaxRegs
  /\ LET d == IF term_ready["tab"] THEN pending["tab"] ELSE <<>>
     IN  pending' = [pending EXCEPT !["tab"] =
           SetCallback(d, NewCallback(ShellReadyId("tab"), "shell", now, regs + 1))]
  /\ term_ready' = [term_ready EXCEPT !["tab"] = TRUE]
  /\ IF term_ready["tab"]
       THEN UNCHANGED <<change_terminals, reader>>
       ELSE /\ change_terminals' = Append(change_terminals, NewChangeTerminal)
            /\ reader' = [reader EXCEPT !["tab"] = [state |-> "idle"]]
  /\ regs' = regs + 1
  /\ UNCHANGED <<fired, now, batchVars, sessVars, orchVars, review_text, call, items_arg, data_arg, threads>>

\* the first part of the output handlers: the bytes join the batch of the
\* session and a flush timer is started unless one is scheduled
AppendToBatch(s, data) ==
  /\ emitted' = [emitted EXCEPT ![s] = Append(@, data)]
  /\ batch' = [batch EXCEPT ![s] = @ \o data]
  /\ IF scheduled[s]
       THEN UNCHANGED <<scheduled, flush_threads>>
       ELSE /\ scheduled' = [scheduled EXCEPT ![s] = TRUE]
            /\ flush_threads' = flush_threads \cup
                 {[session |-> s, n |-> Len(emitted[s]) + 1, ran |-> FALSE, chunk |-> <<>>]}
  /\ UNCHANGED <<main_queue, delivered>>

\* _on_terminal_output, _on_review_terminal_output, _on_change_terminal_output
\* up to the start of the loop over the pending callbacks
OnOutput ==
  /\ ChunksRead < MaxChunks
  /\ \E s \in Sessions, data \in SampleChunks :
       /\ term_ready[s]
       /\ s = "tab" => (Registered.alive /\ ~Registered.exited)
       /\ reader[s].state = "idle"
       /\ AppendToBatch(s, data)
       /\ pending' = [pending EXCEPT ![s] =
            [i \in 1..Len(@) |-> [@[i] EXCEPT !.full = @ \o decode(data)]]]
       /\ reader' = [reader EXCEPT ![s] =
            IF pending[s] = <<>> THEN [state |-> "idle"]
            ELSE [state |-> "loop", text |-> decode(data), size |-> Len(pending[s]),
                       pos |-> 1, completed |-> <<>>, detached |-> FALSE, own |-> <<>>]]
  /\ UNCHANGED <<fired, now, term_ready, regs, change_terminals, sessVars, orchVars,
                 review_text, call, items_arg, data_arg, threads>>

\* for cb_id in completed: del d[cb_id], which raises KeyError at the first id
\* that d does not hold
RECURSIVE del_completed(_, _)
del_completed(d, ids) ==
  IF ids = <<>> THEN [map |-> d, raised |-> FALSE]
  ELSE IF \E i \in 1..Len(d) : d[i].id = Head(ids)
    THEN del_completed(SelectSeq(d, LAMBDA e : e.id # Head(ids)), Tail(ids))
    ELSE [map |-> d, raised |-> TRUE]

\* one turn of  for cb_id, cb_info in callbacks.items():  and, when the
\* items are exhausted, the deletion of the completed entries.  The dict
\* iterator raises RuntimeError when the size of the dict has changed; the
\* error ends the reader thread.  The loop iterates over the dict object it got
\* when it began: the map of the session, or, once stop_change_terminal has
\* deleted the tab's map from _change_pending_callbacks, that same object
\* which only this thread still holds (detached)
LoopStep ==
  \E s \in Sessions :
    /\ reader[s].state = "loop"
    /\ LET r == reader[s]
           d == IF r.detached THEN r.own ELSE pending[s]
       IN
       IF Len(d) # r.size THEN
         /\ reader' = [reader EXCEPT ![s] = [state |-> "dead"]]
         /\ UNCHANGED <<pending, fired>>
       ELSE IF r.pos > Len(d) THEN
         LET after == del_completed(pending[s], r.completed)
         IN  /\ pending' = [pending EXCEPT ![s] = after.map]
             /\ reader' = [reader EXCEPT ![s] =
                  [state |-> IF after.raised THEN "dead" ELSE "idle"]]
             /\ UNCHANGED fired
       ELSE
         LET e == d[r.pos]
             buf == cap_callback_buffer(e.buffer \o r.text)
             matched == PromptMatched(e.pattern, buf)
             turned == [r EXCEPT !.pos = @ + 1,
                                 !.completed = IF matched THEN Append(@, e.id) ELSE @]
         IN  /\ pending' = IF r.detached THEN pending
                           ELSE [pending EXCEPT ![s][r.pos].buffer = buf]
             /\ fired' = IF matched /\ webview
                           THEN Append(fired, [session |-> s, id |-> e.id, reg |-> e.reg,
                                               output |-> buf])
                           ELSE fired
             /\ reader' = [reader EXCEPT ![s] =
                  IF r.detached THEN [turned EXCEPT !.own[r.pos].buffer = buf]
                                ELSE turned]
    /\ UNCHANGED <<now, term_ready, regs, change_terminals, batchVars, sessVars, orchVars,
                   review_text, call, items_arg, data_arg, threads>>

InitWatch ==
  /\ OrchIdle
  /\ review_text = <<>>
  /\ call = NoCall
  /\ items_arg = <<>>
  /\ data_arg = <<>>
  /\ threads = NoThreads
  /\ CoordIdle

NextWatch ==
  \/ RunCommandWithCallback
  \/ StartTerminal
  \/ StartReviewTerminal
  \/ StartChangeTerminal
  \/ OnOutput
  \/ LoopStep

SpecWatch == InitWatch /\ [][NextWatch]_vars

(***************************************************************************)
(* The staleness sweep                                                     *)
(***************************************************************************)
\* _CB_TIMEOUT_SECS
CB_TIMEOUT_SECS == 300
\* the sleep of the purge loop
PurgeInterval == 60
\* the clock stops here
MaxNow == 360

\* time.time() advances
Tick ==
  /\ now + PurgeInterval <= MaxNow
  /\ now' = now + PurgeInterval
  /\ UNCHANGED <<pending, fired, reader, term_ready, regs, change_terminals, batchVars,
                 sessVars, orchVars, review_text, call, items_arg, data_arg, threads>>

\* v.get('created_at', now)
CreatedAtOr(v, default) ==
  IF v.created_at = NoCreatedAt THEN default ELSE v.created_at

\* the comprehension and the deletions of _purge_stale_callbacks on one map
PurgeMap(d) ==
  SelectSeq(d, LAMBDA v : ~(now - CreatedAtOr(v, now) > CB_TIMEOUT_SECS))

\* _purge_stale_callbacks
Sweep ==
  /\ pending' = [s \in Sessions |-> PurgeMap(pending[s])]
  /\ UNCHANGED <<fired, reader, now, term_ready, regs, change_terminals, batchVars,
                 sessVars, orchVars, review_text, call, items_arg, data_arg, threads>>

NextSweep ==
  \/ RunCommandWithCallback
  \/ StartTerminal
  \/ StartReviewTerminal
  \/ StartChangeTerminal
  \/ Tick
  \/ Sweep

SpecSweep == InitWatch /\ [][NextSweep]_vars

(***************************************************************************)
(* The registry of change terminals                                        *)
(***************************************************************************)
\* the inputs written to a change terminal in a run
MaxInputs == 1

\* the message writeChangeInput: write_to_change_terminal
WriteChangeInput ==
  /\ InRegistry => Registered.input < MaxInputs
  /\ change_terminals' = IF InRegistry THEN WriteToRegistered ELSE change_terminals
  /\ UNCHANGED <<pending, fired, reader, now, term_ready, regs, batchVars, sessVars,
                 orchVars, review_text, call, items_arg, data_arg, threads>>

\* the message changeTerminalResize: resize_change_terminal
ResizeChangeTerminal ==
  /\ \E size \in SampleSizes :
       change_terminals' =
         IF InRegistry
           THEN [change_terminals EXCEPT ![Len(change_terminals)] =
                   [@ EXCEPT !.cols = size[1], !.rows = size[2]]]
           ELSE change_terminals
  /\ UNCHANGED <<pending, fired, reader, now, term_ready, regs, batchVars, sessVars,
                 orchVars, review_text, call, items_arg, data_arg, threads>>

\* the message stopChangeTerminal: stop_change_terminal
StopChangeTerminal ==
  /\ IF InRegistry
       THEN /\ change_terminals' =
                 IF Registered.alive
                   THEN [change_terminals EXCEPT ![Len(change_terminals)] =
                           [@ EXCEPT !.alive = FALSE, !.termed = TRUE]]
                   ELSE change_terminals
            /\ term_ready' = [term_ready EXCEPT !["tab"] = FALSE]
       ELSE UNCHANGED <<change_terminals, term_ready>>
  /\ pending' = [pending EXCEPT !["tab"] = <<>>]
  /\ reader' = IF reader["tab"].state = "loop" /\ ~reader["tab"].detached
                THEN [reader EXCEPT !["tab"] =
                        [@ EXCEPT !.detached = TRUE, !.own = pending["tab"]]]
                ELSE reader
  /\ batch' = [batch EXCEPT !["tab"] = <<>>]
  /\ scheduled' = [scheduled EXCEPT !["tab"] = FALSE]
  /\ UNCHANGED <<fired, now, regs, flush_threads, main_queue, delivered, emitted,
                 sessVars, orchVars, review_text, call, items_arg, data_arg, threads>>

\* the shell of a session exits
ChangeProcExit ==
  /\ \E i \in 1..Len(change_terminals) :
       /\ ~change_terminals[i].exited
       /\ change_terminals' = [change_terminals EXCEPT ![i].exited = TRUE]
  /\ UNCHANGED <<pending, fired, reader, now, term_ready, regs, batchVars, sessVars,
                 orchVars, review_text, call, items_arg, data_arg, threads>>

\* the finally clause of _read_loop: the reader of a session ends, because
\* the shell has exited or because the output handler has raised
ReadLoopFinally ==
  /\ \E i \in 1..Len(change_terminals) :
       /\ change_terminals[i].alive
       /\ \/ change_terminals[i].exited
          \/ i = Len(change_terminals) /\ InRegistry /\ reader["tab"].state = "dead"
       /\ change_terminals' = [change_terminals EXCEPT ![i].alive = FALSE]
  /\ UNCHANGED <<pending, fired, reader, now, term_ready, regs, batchVars, sessVars,
                 orchVars, review_text, call, items_arg, data_arg, threads>>

\* the message runChangeCommandWithCallback: the requests for the change tab
RunChangeCommandWithCallback ==
  /\ RunCommandWithCallback
  /\ pending'["main"] = pending["main"]

NextRegistry ==
  \/ StartChangeTerminal
  \/ StopChangeTerminal
  \/ WriteChangeInput
  \/ ResizeChangeTerminal
  \/ RunChangeCommandWithCallback
  \/ OnOutput
  \/ LoopStep
  \/ ChangeProcExit
  \/ ReadLoopFinally

SpecRegistry == InitWatch /\ [][NextRegistry]_vars

(***************************************************************************)
(* The output batches                                                      *)
(***************************************************************************)
\* base64.b64encode(chunk) and the decoding of the receiving function: every
\* byte travels as its encoded form
b64encode(chunk) == [i \in 1..Len(chunk) |-> <<"b64", chunk[i]>>]
b64decode(text) == [i \in 1..Len(text) |-> text[i][2]]

\* flush, flush_review, flush_change under the lock: take the batch, clear
\* it, clear the scheduled flag
FlushRun ==
  \E t \in flush_threads :
    /\ ~t.ran
    /\ IF batch[t.session] = <<>>
         THEN /\ flush_threads' = flush_threads \ {t}
              /\ UNCHANGED batch
         ELSE /\ flush_threads' = (flush_threads \ {t}) \cup
                   {[t EXCEPT !.ran = TRUE, !.chunk = batch[t.session]]}
              /\ batch' = [batch EXCEPT ![t.session] = <<>>]
    /\ scheduled' = [scheduled EXCEPT ![t.session] = FALSE]
    /\ UNCHANGED <<main_queue, delivered, emitted, watchVars, sessVars, orchVars,
                   review_text, call, items_arg, data_arg, threads>>

\* the rest of flush, outside the lock: encode and add the block to the
\* main queue
FlushEnqueue ==
  \E t \in flush_threads :
    /\ t.ran
    /\ main_queue' = Append(main_queue, [session |-> t.session, b64 |-> b64encode(t.chunk)])
    /\ flush_threads' = flush_threads \ {t}
    /\ UNCHANGED <<batch, scheduled, delivered, emitted, watchVars, sessVars, orchVars,
                   review_text, call, items_arg, data_arg, threads>>

\* the main queue runs its oldest block: the web view receives the unit
DeliverMain ==
  /\ main_queue # <<>>
  /\ delivered' = [delivered EXCEPT ![Head(main_queue).session] =
                     Append(@, b64decode(Head(main_queue).b64))]
  /\ main_queue' = Tail(main_queue)
  /\ UNCHANGED <<batch, scheduled, flush_threads, emitted, watchVars, sessVars, orchVars,
                 review_text, call, items_arg, data_arg, threads>>

NextBatch ==
  \/ StartTerminal
  \/ StartChangeTerminal
  \/ StopChangeTerminal
  \/ OnOutput
  \/ LoopStep
  \/ FlushRun
  \/ FlushEnqueue
  \/ DeliverMain

SpecBatch == InitWatch /\ [][NextBatch]_vars

(***************************************************************************)
(* TerminalSession                                                         *)
(***************************************************************************)
\* _PTY_CHUNK_SIZE, 400 in the code
PTY_CHUNK_SIZE == 2
\* the processes of a run: the shell and its descendants
MaxProcs == 3
\* the calls made on the session in a run
MaxCalls == 4

SamplePayloads ==
  { <<"a">>, <<"a", "b">>, <<"a", "b", "c">>, <<"a", "b", "c", "d", "e">> }

Min(a, b) == IF a <= b THEN a ELSE b

\* the shell of the session has not exited
ShellLive == session.pid # NoPid /\ procs[session.pid].live

\* pgrep -P pid: the live children of pid, in pid order
ChildSeq(pid) ==
  SelectSeq([i \in 1..Len(procs) |-> i],
            LAMBDA i : procs[i].parent = pid /\ procs[i].live)

\* the body of the loop of _kill_descendants: the recursive call, then the
\* signal to the child
SignalOrder_parent_first(sub, child) == <<child>> \o sub
SignalOrder(sub, child) == sub \o <<child>>

\* the os.kill calls of the loop of _kill_descendants over the children cs
RECURSIVE KillFrom(_)
KillFrom(cs) ==
  IF cs = <<>> THEN <<>>
  ELSE SignalOrder(KillFrom(ChildSeq(Head(cs))), Head(cs)) \o KillFrom(Tail(cs))

\* _kill_descendants(pid)
kill_descendants(pid) == KillFrom(ChildSeq(pid))

\* what os.kill(pid, SIGTERM) does
OsKill(pid) == IF procs[pid].live THEN "ok" ELSE "ProcessLookupError"

\* the except clauses around os.kill and os.write
KillCatches == {"ProcessLookupError", "OSError"}
WriteCatches == {"OSError"}

\* what os.write on the master side can do: it fails only once the shell
\* has exited
OsWriteOutcomes == IF ShellLive THEN {"ok"} ELSE {"ok", "OSError"}

Called(op) ==
  [hist EXCEPT !.n = @ + 1, !.op = op,
               !.starts = IF op = "start" THEN @ + 1 ELSE @,
               !.kills = IF op = "kill" THEN @ + 1 ELSE @]

\* if self._started: return
AlreadyStarted_unless_dead(s) == s.started /\ s.alive
AlreadyStarted(s) == s.started

\* start(cols, rows)
Start ==
  /\ hist.n < MaxCalls
  /\ \E size \in SampleSizes :
       IF AlreadyStarted(session)
         THEN /\ hist' = Called("start")
              /\ UNCHANGED <<session, procs>>
         ELSE /\ session' = [started |-> TRUE, alive |-> TRUE, master_fd |-> 1,
                             pid |-> Len(procs) + 1, cols |-> size[1], rows |-> size[2]]
              /\ procs' = Append(procs, [parent |-> NoPid, live |-> TRUE, status |-> 0])
              /\ hist' = [Called("start") EXCEPT !.forks = @ + 1, !.readers = @ + 1]
  /\ UNCHANGED <<signals, os_writes, wr, watchVars, batchVars, orchVars, review_text,
                 call, items_arg, data_arg, threads>>

\* end = min(offset + self._PTY_CHUNK_SIZE, len(data))
chunk_end_one_more(offset, n) == Min(offset + PTY_CHUNK_SIZE + 1, n)
chunk_end(offset, n) == Min(offset + PTY_CHUNK_SIZE, n)

\* write(data), up to the first os.write of _write_chunked
Write ==
  /\ hist.n < MaxCalls
  /\ wr.state # "chunking"
  /\ \E data \in SamplePayloads :
       LET this == [state |-> "done", data |-> data, offset |-> 0,
                    after_kill |-> hist.kills > 0,
                    live |-> session.master_fd # NoFd /\ session.alive,
                    failed |-> FALSE, cut |-> FALSE]
       IN  IF session.master_fd # NoFd /\ session.alive
             THEN IF Len(data) <= PTY_CHUNK_SIZE
                    THEN \E outcome \in OsWriteOutcomes :
                           /\ os_writes' = IF outcome = "ok" THEN <<data>> ELSE <<>>
                           /\ wr' = [this EXCEPT !.failed = outcome # "ok",
                                                 !.offset = IF outcome = "ok" THEN Len(data) ELSE 0]
                           /\ hist' = [Called("write") EXCEPT !.raised =
                                         @ \/ (outcome # "ok" /\ outcome \notin WriteCatches)]
                    ELSE /\ os_writes' = <<>>
                         /\ wr' = [this EXCEPT !.state = "chunking"]
                         /\ hist' = Called("write")
             ELSE /\ os_writes' = <<>>
                  /\ wr' = this
                  /\ hist' = Called("write")
  /\ UNCHANGED <<session, procs, signals, watchVars, batchVars, orchVars, review_text,
                 call, items_arg, data_arg, threads>>

\* one turn of the loop of _write_chunked
WriteChunk ==
  /\ wr.state = "chunking"
  /\ IF wr.offset < Len(wr.data) /\ session.alive
       THEN \E outcome \in OsWriteOutcomes :
              LET end == chunk_end(wr.offset, Len(wr.data))
                  chunk == SubSeq(wr.data, wr.offset + 1, end)
              IN  IF outcome = "ok"
                    THEN /\ os_writes' = Append(os_writes, chunk)
                         /\ wr' = [wr EXCEPT !.offset = end]
                         /\ hist' = hist
                    ELSE /\ os_writes' = os_writes
                         /\ wr' = [wr EXCEPT !.state = "done", !.failed = TRUE]
                         /\ hist' = [hist EXCEPT !.raised =
                                       @ \/ outcome \notin WriteCatches]
       ELSE /\ wr' = [wr EXCEPT !.state = "done", !.cut = wr.offset < Len(wr.data)]
            /\ UNCHANGED <<os_writes, hist>>
  /\ UNCHANGED <<session, procs, signals, watchVars, batchVars, orchVars, review_text,
                 call, items_arg, data_arg, threads>>

\* resize(cols, rows)
Resize ==
  /\ hist.n < MaxCalls
  /\ \E size \in SampleSizes :
       /\ session' = IF size[1] = session.cols /\ size[2] = session.rows
                       THEN session
                       ELSE [session EXCEPT !.cols = size[1], !.rows = size[2]]
       /\ hist' = Called("resize")
  /\ UNCHANGED <<procs, signals, os_writes, wr, watchVars, batchVars, orchVars,
                 review_text, call, items_arg, data_arg, threads>>

\* kill(): every os.kill call is recorded with the parent of its target and
\* the liveness flag of the session at the time of the call
Kill ==
  /\ hist.n < MaxCalls
  /\ session' = [session EXCEPT !.alive = FALSE]
  /\ LET targets == IF session.pid # NoPid
                      THEN kill_descendants(session.pid) \o <<session.pid>>
                      ELSE <<>>
     IN  /\ signals' = [i \in 1..Len(targets) |->
                          [pid |-> targets[i], parent |-> procs[targets[i]].parent,
                           alive |-> session'.alive]]
         /\ hist' = [Called("kill") EXCEPT !.raised =
                       @ \/ \E i \in 1..Len(targets) :
                              OsKill(targets[i]) # "ok" /\ OsKill(targets[i]) \notin KillCatches]
  /\ UNCHANGED <<procs, os_writes, wr, watchVars, batchVars, orchVars, review_text,
                 call, items_arg, data_arg, threads>>

\* the wait statuses with which the shell of a session ends: exit(0),
\* exit(1) and death by SIGTERM
SampleStatuses == {0, 256, 15}

\* os.waitpid(pid, os.WNOHANG)[1]: the wait status of a child that has
\* exited, and 0 for a child that is still running
waitpid_nohang(pid) == IF procs[pid].live THEN 0 ELSE procs[pid].status

\* os.WIFEXITED and os.WEXITSTATUS
WIFEXITED(status) == status % 128 = 0
WEXITSTATUS(status) == (status \div 256) % 256

\* the reader thread of the session has been started and has not ended
ReaderRuns == hist.readers > Len(hist.exits)

\* the finally clause of _read_loop: the reader ends, because the read has
\* failed, the output handler has raised or kill() has cleared _alive, and
\* gives the exit code to on_exit
ReaderExit ==
  /\ ReaderRuns
  /\ session' = [session EXCEPT !.alive = FALSE]
  /\ LET status == waitpid_nohang(session.pid)
         code == IF WIFEXITED(status) THEN WEXITSTATUS(status) ELSE -1
     IN  hist' = [hist EXCEPT !.exits = Append(@, code)]
  /\ UNCHANGED <<procs, signals, os_writes, wr, watchVars, batchVars, orchVars,
                 review_text, call, items_arg, data_arg, threads>>

\* a process of the session starts a child
Spawn ==
  /\ Len(procs) < MaxProcs
  /\ \E p \in 1..Len(procs) :
       /\ procs[p].live
       /\ procs' = Append(procs, [parent |-> p, live |-> TRUE, status |-> 0])
  /\ UNCHANGED <<session, signals, os_writes, wr, hist, watchVars, batchVars, orchVars,
                 review_text, call, items_arg, data_arg, threads>>

\* a process exits; its children are handed over to init
ProcExit ==
  /\ \E p \in 1..Len(procs) :
       /\ procs[p].live
       /\ \E status \in (IF p = session.pid THEN SampleStatuses ELSE {0}) :
            procs' = [i \in 1..Len(procs) |->
              IF i = p THEN [procs[i] EXCEPT !.live = FALSE, !.status = status]
              ELSE IF procs[i].parent = p THEN [procs[i] EXCEPT !.parent = NoPid]
              ELSE procs[i]]
  /\ UNCHANGED <<session, signals, os_writes, wr, hist, watchVars, batchVars, orchVars,
                 review_text, call, items_arg, data_arg, threads>>

NextSession ==
  \/ Start
  \/ Write
  \/ WriteChunk
  \/ Resize
  \/ Kill
  \/ ReaderExit
  \/ Spawn
  \/ ProcExit

SpecSession == InitWatch /\ [][NextSession]_vars

(***************************************************************************)
(* Claims about the completion watcher                                     *)
(***************************************************************************)
\* the handler of the session is not in the middle of a chunk
BetweenChunks(s) == reader[s].state # "loop"

\* the stripped tail of the buffer ends in a shell prompt character
EndsInShellPrompt(buffer) ==
  EndsInOneOf(LastChars(ansi_sub(buffer), TailLen), {"$", "%", HEAVY, ">"})

\* C12: a pending callback with pattern shell fires exactly once, on the
\* first chunk after which the stripped tail of its buffer ends in a shell
\* prompt character, and is removed then: between two chunks no shell entry
\* with such a buffer is left in a map, no registration has fired twice, and
\* every shell entry that fired had such a buffer.
C12_ShellFiresOnceAndLeaves ==
  /\ \A s \in Sessions : BetweenChunks(s) =>
       \A i \in 1..Len(pending[s]) :
         pending[s][i].pattern = "shell" => ~EndsInShellPrompt(pending[s][i].buffer)
  /\ \A i, j \in 1..Len(fired) :
       (i # j /\ fired[i].reg > 0) => fired[i].reg # fired[j].reg
  /\ \A i \in 1..Len(fired) :
       fired[i].reg > 0 =>
         \/ EndsInShellPrompt(fired[i].output)
         \/ \E q \in SampleRequests : q.id = fired[i].id /\ q.pattern # "shell"

\* C13: after every chunk the buffer of a pending callback is no longer than
\* the cap, and when everything read since its registration is longer than
\* the cap the buffer is the trailing cap-length part of it.
C13_BufferIsCappedTail ==
  \A s \in Sessions : BetweenChunks(s) =>
    \A i \in 1..Len(pending[s]) :
      LET e == pending[s][i]
      IN  /\ Len(e.buffer) <= CB_MAX_BUFFER
          /\ Len(e.full) > CB_MAX_BUFFER => e.buffer = LastChars(e.full, CB_MAX_BUFFER)

\* the time an entry has been pending
Age(e) == now - e.at

\* C14: a sweep removes exactly the stale entries: every pending callback of
\* any session that is older than the timeout is removed, whichever way it
\* was registered, none that is not older is removed, and nothing fires.
C14_SweepRemovesExactlyStale ==
  [][Sweep =>
       /\ fired' = fired
       /\ \A s \in Sessions :
            pending'[s] = SelectSeq(pending[s], LAMBDA e : Age(e) <= CB_TIMEOUT_SECS)]_vars

(***************************************************************************)
(* Claims about TerminalSession                                            *)
(***************************************************************************)
RECURSIVE Concat(_)
Concat(chunks) == IF chunks = <<>> THEN <<>> ELSE Head(chunks) \o Concat(Tail(chunks))

WroteUndisturbed ==
  wr.state = "done" /\ wr.live /\ ~wr.failed /\ ~wr.cut

\* C16: the os.write calls of a write(p) are at most the chunk size each and
\* their concatenation, in order, is a prefix of p; for a session that is
\* alive and stays so, it is p itself, in a single os.write when p is no
\* longer than the chunk size.
C16_ChunksConcatenateToPayload ==
  wr.state # "none" =>
    /\ \A i \in 1..Len(os_writes) : Len(os_writes[i]) <= PTY_CHUNK_SIZE
    /\ Len(Concat(os_writes)) <= Len(wr.data)
    /\ Concat(os_writes) = SubSeq(wr.data, 1, Len(Concat(os_writes)))
    /\ WroteUndisturbed =>
         /\ Concat(os_writes) = wr.data
         /\ Len(wr.data) <= PTY_CHUNK_SIZE => Len(os_writes) = 1

C16_Witness ==
  /\ WroteUndisturbed
  /\ Len(wr.data) > PTY_CHUNK_SIZE
  /\ Len(os_writes) >= 2
  /\ Concat(os_writes) = wr.data

\* the step is a call of op on the session
CallStep(op) == hist'.n = hist.n + 1 /\ hist'.op = op

\* q is below pid in the process tree, at most MaxProcs + 1 levels down
RECURSIVE IsBelow(_, _, _)
IsBelow(q, pid, k) ==
  /\ k > 0
  /\ procs[q].parent # NoPid
  /\ \/ procs[q].parent = pid
     \/ IsBelow(procs[q].parent, pid, k - 1)

DescendantsOf(pid) ==
  {q \in 1..Len(procs) : procs[q].live /\ IsBelow(q, pid, MaxProcs + 1)}

C18_StartTwiceIsNoOp ==
  /\ [](hist.forks <= 1 /\ hist.readers <= 1)
  /\ [][(CallStep("start") /\ session.started) =>
          /\ session' = session
          /\ procs' = procs
          /\ hist'.forks = hist.forks
          /\ hist'.readers = hist.readers]_vars

C18_Witness ==
  /\ hist.op = "start"
  /\ hist.starts >= 2
  /\ hist.kills >= 1
  /\ session.started
  /\ ~session.alive

(***************************************************************************)
(* Claims about the output batches                                         *)
(***************************************************************************)
\* C19: for each session the units delivered to the web view, concatenated
\* in delivery order, are at every moment a prefix of the bytes the reader
\* has read, in reading order.
C19_DeliveredIsPrefixOfEmitted ==
  \A s \in Sessions :
    LET got == Concat(delivered[s])
        read == Concat(emitted[s])
    IN  /\ Len(got) <= Len(read)
        /\ got = SubSeq(read, 1, Len(got))

(***************************************************************************)
(* Claims about the send failure                                           *)
(***************************************************************************)
\* the step is the window's handling of a send failure of the worker in tab
SendFailedStep(worker_type, tab_id) ==
  /\ registered
  /\ w.running
  /\ w' = on_send_failed(w, worker_type, tab_id)

\* the run has been aborted by the step: no stage timer, not running, and
\* one more result, a failure
AbortedByStep ==
  /\ w'.stage_timer = NoTimer
  /\ ~w'.running
  /\ Len(w'.completions) = Len(w.completions) + 1
  /\ ~w'.completions[Len(w'.completions)].success

\* C20: a send failure of the reviewer's tab while the stage is reviewing,
\* or of the fixer's tab while the stage is fixing, aborts the run: the stage
\* timer is cancelled, the run stops running and one failure result is
\* reported.
C20_SendFailureAborts ==
  [][/\ (SendFailedStep("codex", CodexTab) /\ w.stage = "reviewing") => AbortedByStep
     /\ (SendFailedStep("droid", DroidTab) /\ w.stage = "fixing") => AbortedByStep]_vars

C20_Witness ==
  /\ ~w.running
  /\ w.stage_timer = NoTimer
  /\ w.completions # <<>>
  /\ w.completions[Len(w.completions)].message = "droid_send_failed"
  /\ w.cycle >= 1

(***************************************************************************)
(* Claims about the registry of change terminals                           *)
(***************************************************************************)
\* C21: while the change tab has no session in the registry, a write, a
\* resize, a stop or a run-with-callback addressed to it changes nothing: no
\* pending callback appears for the tab and no session changes.
C21_NoSessionNoEffect ==
  [][(~InRegistry /\ ~InRegistry') =>
       /\ pending'["tab"] = pending["tab"]
       /\ change_terminals' = change_terminals]_vars

\* the sessions of the tab whose shell has neither exited nor been sent
\* SIGTERM, and those whose liveness flag is set
LiveProcesses ==
  {i \in 1..Len(change_terminals) :
     ~change_terminals[i].exited /\ ~change_terminals[i].termed}
LiveSessions ==
  {i \in 1..Len(change_terminals) : change_terminals[i].alive}

\* C22: after any sequence of starts, stops and exits the change tab has at
\* most one live session and at most one live process.
C22_OneLiveProcessPerTab ==
  /\ Cardinality(LiveSessions) <= 1
  /\ Cardinality(LiveProcesses) <= 1

(***************************************************************************)
(* autofix_logic.py: the functions that read a hook event.  An event is a  *)
(* Python dict: a function from its keys to values, and every value        *)
(* carries its Python type.                                                *)
(***************************************************************************)
NoneV == [t |-> "none"]
BoolV(b) == [t |-> "bool", v |-> b]
IntV(n) == [t |-> "int", v |-> n]
StrV(s) == [t |-> "str", v |-> s]
DictV(d) == [t |-> "dict", v |-> d]

\* dict.get(key): the value of the key, None when the dict has no such key
dict_get(d, key) == IF key \in DOMAIN d THEN d[key] ELSE NoneV

\* bool(value)
truthy(value) ==
  CASE value.t = "none" -> FALSE
    [] value.t = "bool" -> value.v
    [] value.t = "int" -> value.v # 0
    [] value.t = "str" -> value.v # <<>>
    [] value.t = "dict" -> DOMAIN value.v # {}

DigitChars == <<"0", "1", "2", "3", "4", "5", "6", "7", "8", "9">>

\* str(value); the integers of the events have one digit, and of the text of
\* a dict only the braces around its items are kept
py_str(value) ==
  CASE value.t = "none" -> <<"N", "o", "n", "e">>
    [] value.t = "bool" -> IF value.v THEN <<"T", "r", "u", "e">>
                           ELSE <<"F", "a", "l", "s", "e">>
    [] value.t = "int" -> <<DigitChars[value.v + 1]>>
    [] value.t = "str" -> value.v
    [] value.t = "dict" -> IF DOMAIN value.v = {} THEN <<"{", "}">>
                           ELSE <<"{", ".", "}">>

\* str(value or '')
str_or_empty(value) == IF truthy(value) THEN py_str(value) ELSE <<>>

\* str.endswith(suffix)
endswith(s, suffix) ==
  Len(suffix) <= Len(s) /\ SubSeq(s, Len(s) - Len(suffix) + 1, Len(s)) = suffix

\* the characters of the class [/_\s]
TokenSeparators == {"/", "_"} \cup Whitespace

\* re.sub(r'[/_\s]+', '-', s): every run of separators becomes one dash
RECURSIVE sub_separators(_)
sub_separators(s) ==
  IF s = <<>> THEN <<>>
  ELSE IF Head(s) \in TokenSeparators
    THEN <<"-">> \o sub_separators(SubSeq(s, LeadingIn(s, TokenSeparators) + 1, Len(s)))
  ELSE <<Head(s)>> \o sub_separators(Tail(s))

\* _normalize_event_token
normalize_event_token_keep_case(value) ==
  sub_separators(strip(str_or_empty(value)))
normalize_event_token(value) ==
  sub_separators(lower(strip(str_or_empty(value))))

done_tokens ==
  {<<"a", "g", "e", "n", "t", "-", "t", "u", "r", "n", "-", "c", "o", "m", "p", "l", "e", "t", "e">>,
   <<"a", "g", "e", "n", "t", "-", "t", "u", "r", "n", "-", "c", "o", "m", "p", "l", "e", "t", "e", "d">>,
   <<"a", "g", "e", "n", "t", "-", "t", "u", "r", "n", "-", "d", "o", "n", "e">>,
   <<"t", "u", "r", "n", "-", "c", "o", "m", "p", "l", "e", "t", "e">>,
   <<"t", "u", "r", "n", "-", "c", "o", "m", "p", "l", "e", "t", "e", "d">>,
   <<"t", "u", "r", "n", "-", "d", "o", "n", "e">>,
   <<"i", "t", "e", "m", "-", "c", "o", "m", "p", "l", "e", "t", "e">>,
   <<"i", "t", "e", "m", "-", "c", "o", "m", "p", "l", "e", "t", "e", "d">>,
   <<"s", "e", "s", "s", "i", "o", "n", "-", "c", "o", "m", "p", "l", "e", "t", "e">>,
   <<"s", "e", "s", "s", "i", "o", "n", "-", "c", "o", "m", "p", "l", "e", "t", "e", "d">>,
   <<"r", "e", "s", "p", "o", "n", "s", "e", "-", "c", "o", "m", "p", "l", "e", "t", "e">>,
   <<"r", "e", "s", "p", "o", "n", "s", "e", "-", "c", "o", "m", "p", "l", "e", "t", "e", "d">>,
   <<"r", "e", "s", "p", "o", "n", "s", "e", "-", "d", "o", "n", "e">>,
   <<"m", "e", "s", "s", "a", "g", "e", "-", "c", "o", "m", "p", "l", "e", "t", "e">>,
   <<"m", "e", "s", "s", "a", "g", "e", "-", "c", "o", "m", "p", "l", "e", "t", "e", "d">>,
   <<"m", "e", "s", "s", "a", "g", "e", "-", "d", "o", "n", "e">>,
   <<"c", "o", "m", "p", "l", "e", "t", "i", "o", "n">>,
   <<"c", "o", "m", "p", "l", "e", "t", "e", "d">>, <<"d", "o", "n", "e">>,
   <<"f", "i", "n", "i", "s", "h", "e", "d">>, <<"s", "t", "o", "p">>,
   <<"s", "t", "o", "p", "p", "e", "d">>}

\* the endings tested on the raw event name, and on its token
raw_done_suffixes ==
  {<<"/", "c", "o", "m", "p", "l", "e", "t", "e">>,
   <<"/", "c", "o", "m", "p", "l", "e", "t", "e", "d">>,
   <<"/", "d", "o", "n", "e">>,
   <<"/", "f", "i", "n", "i", "s", "h", "e", "d">>}

token_done_suffixes ==
  {<<"-", "c", "o", "m", "p", "l", "e", "t", "e">>,
   <<"-", "c", "o", "m", "p", "l", "e", "t", "e", "d">>,
   <<"-", "d", "o", "n", "e">>,
   <<"-", "f", "i", "n", "i", "s", "h", "e", "d">>}

\* the statuses that mean done
done_statuses ==
  {<<"c", "o", "m", "p", "l", "e", "t", "e">>,
   <<"c", "o", "m", "p", "l", "e", "t", "e", "d">>, <<"d", "o", "n", "e">>,
   <<"f", "i", "n", "i", "s", "h", "e", "d">>,
   <<"s", "t", "o", "p", "p", "e", "d">>,
   <<"s", "u", "c", "c", "e", "s", "s">>, <<"o", "k">>}

\* data.get('payload', {})
payload_of(data) ==
  IF "payload" \in DOMAIN data THEN data["payload"] ELSE DictV(<<>>)

\* the event-name candidates, in the order the code collects them
event_candidates(data) ==
  <<dict_get(data, "codex_event_type"), dict_get(data, "event_type"),
    dict_get(data, "type"), dict_get(data, "hook_event_name")>>
  \o (IF payload_of(data).t = "dict"
        THEN LET payload == payload_of(data).v
             IN  <<dict_get(payload, "type"), dict_get(payload, "event_type"),
                   dict_get(payload, "hook_event_name"), dict_get(payload, "event")>>
        ELSE <<>>)

status_candidates(data) ==
  <<dict_get(data, "status")>>
  \o (IF payload_of(data).t = "dict"
        THEN <<dict_get(payload_of(data).v, "status")>>
        ELSE <<>>)

\* the body of the loop over the event-name candidates: TRUE when the
\* candidate makes the function return True
candidate_is_done(candidate) ==
  LET raw == lower(strip(str_or_empty(candidate)))
      token == normalize_event_token(candidate)
  IN  \/ \E suffix \in raw_done_suffixes : endswith(raw, suffix)
      \/ /\ token # <<>>
         /\ \/ token \in done_tokens
            \/ \E suffix \in token_done_suffixes : endswith(token, suffix)

\* autofix_logic.is_codex_turn_complete
autofix_logic_is_codex_turn_complete(data) ==
  IF dict_get(data, "codex_is_done") = BoolV(TRUE) THEN TRUE
  ELSE IF \E i \in 1..Len(event_candidates(data)) :
            candidate_is_done(event_candidates(data)[i]) THEN TRUE
  ELSE IF \E i \in 1..Len(status_candidates(data)) :
            normalize_event_token(status_candidates(data)[i]) \in done_statuses THEN TRUE
  ELSE \/ truthy(dict_get(data, "done"))
       \/ truthy(dict_get(data, "complete"))
       \/ /\ payload_of(data).t = "dict"
          /\ \/ truthy(dict_get(payload_of(data).v, "done"))
             \/ truthy(dict_get(payload_of(data).v, "complete"))

\* the places of the final message, in the order they are tried
key_paths_underscore_first ==
  <<<<"payload", "last_assistant_message">>, <<"payload", "last-assistant-message">>,
    <<"last_assistant_message">>, <<"last-assistant-message">>,
    <<"payload", "last_result">>, <<"last_result">>>>
key_paths ==
  <<<<"payload", "last-assistant-message">>, <<"payload", "last_assistant_message">>,
    <<"last-assistant-message">>, <<"last_assistant_message">>,
    <<"payload", "last_result">>, <<"last_result">>>>

\* the inner loop: follow the keys of the path, None as soon as a step is
\* not a dict
RECURSIVE follow_key_path(_, _)
follow_key_path(obj, key_path) ==
  IF key_path = <<>> THEN obj
  ELSE IF obj.t = "dict"
    THEN follow_key_path(dict_get(obj.v, Head(key_path)), Tail(key_path))
  ELSE NoneV

\* the outer loop, from the first of the given paths on
RECURSIVE first_message(_, _)
first_message(data, paths) ==
  IF paths = <<>> THEN NoneV
  ELSE LET obj == follow_key_path(DictV(data), Head(paths))
       IN  IF obj.t = "str" /\ strip(obj.v) # <<>> THEN obj
           ELSE first_message(data, Tail(paths))

\* autofix_logic.extract_codex_final_message
extract_codex_final_message(data) == first_message(data, key_paths)

(***************************************************************************)
(* The event functions called on drawn events                              *)
(***************************************************************************)
\* the strings an event name, a status or a flag is drawn from
SampleStrings ==
  {<<>>, <<"m", "e", "s", "s", "a", "g", "e", "-", "d", "e", "l", "t", "a">>,
   <<"a", "g", "e", "n", "t", "-", "t", "u", "r", "n", "-", "c", "o", "m", "p", "l", "e", "t", "e">>,
   <<"A", "g", "e", "n", "t", "_", "T", "u", "r", "n", "_", "C", "o", "m", "p", "l", "e", "t", "e">>,
   <<"t", "u", "r", "n", " ", "d", "o", "n", "e">>,
   <<"t", "u", "r", "n", "_", "_", "d", "o", "n", "e">>,
   <<"i", "t", "e", "m", "/", "c", "o", "m", "p", "l", "e", "t", "e", "d">>,
   <<"x", "/", "f", "i", "n", "i", "s", "h", "e", "d", " ">>,
   <<"t", "a", "s", "k", "-", "f", "i", "n", "i", "s", "h", "e", "d">>,
   <<"r", "u", "n", "\t", "d", "o", "n", "e">>,
   <<"c", "o", "m", "p", "l", "e", "t", "i", "o", "n">>,
   <<"s", "t", "o", "p">>, <<"s", "t", "o", "p", "p", "e", "d">>,
   <<" ", "O", "K">>, <<"s", "u", "c", "c", "e", "s", "s">>,
   <<"c", "o", "m", "p", "l", "e", "t", "e">>,
   <<"C", "o", "m", "p", "l", "e", "t", "e", "d">>, <<"d", "o", "n", "e">>,
   <<"f", "i", "n", "i", "s", "h", "e", "d">>, <<"d", "o", "n", "e", "-">>,
   <<"_">>, <<"u", "n", "d", "o", "n", "e">>, <<"f", "a", "l", "s", "e">>,
   <<"s", "e", "s", "s", "i", "o", "n", " ", "c", "o", "m", "p", "l", "e", "t", "e">>,
   <<"o", "k">>}

SampleValues ==
  {NoneV, BoolV(TRUE), BoolV(FALSE), IntV(0), IntV(1), DictV(<<>>),
   DictV([type |-> StrV(<<"d", "o", "n", "e">>)])}
  \cup {StrV(s) : s \in SampleStrings}

\* the keys the turn-complete test reads, and two it does not read
SampleKeys ==
  {"codex_is_done", "codex_event_type", "event_type", "type", "hook_event_name",
   "event", "status", "done", "complete", "state"}

\* events with one key, at the top level or in the payload, then with a
\* payload that is not a dict, then with codex_is_done False beside a key
SampleTurnEvents ==
  {[k \in {key} |-> value] : key \in SampleKeys, value \in SampleValues}
  \cup {[payload |-> DictV([k \in {key} |-> value])] :
          key \in SampleKeys, value \in SampleValues}
  \cup {[payload |-> value, done |-> BoolV(FALSE)] : value \in SampleValues}
  \cup {[k \in {"codex_is_done", key} |->
           IF k = "codex_is_done" THEN BoolV(FALSE) ELSE StrV(s)] :
          key \in {"event_type", "status"},
          s \in {<<"d", "o", "n", "e">>, <<"m", "e", "s", "s", "a", "g", "e", "-", "d", "e", "l", "t", "a">>}}
  \cup {<<>>}

\* what an event holds at one place of the final message
MessageKinds == {"absent", "none", "empty", "blank", "number", "text"}

MessageValue(kind, i) ==
  CASE kind = "none" -> NoneV
    [] kind = "empty" -> StrV(<<>>)
    [] kind = "blank" -> StrV(<<" ", "\t">>)
    [] kind = "number" -> IntV(i)
    [] kind = "text" -> StrV(<<" ", "m", DigitChars[i + 1], "\n">>)

\* the event that holds, at the i-th place, a value of the kind kinds[i]
MessageEvent(kinds) ==
  LET place(in_payload, key) ==
        CHOOSE i \in 1..Len(key_paths) :
          /\ key_paths[i][Len(key_paths[i])] = key
          /\ (Len(key_paths[i]) = 2) = in_payload
      held(in_payload) ==
        {key_paths[i][Len(key_paths[i])] :
           i \in {j \in 1..Len(key_paths) :
                    (Len(key_paths[j]) = 2) = in_payload /\ kinds[j] # "absent"}}
      payload == [key \in held(TRUE) |->
                    MessageValue(kinds[place(TRUE, key)], place(TRUE, key))]
  IN  [key \in held(FALSE) \cup (IF held(TRUE) = {} THEN {} ELSE {"payload"}) |->
         IF key = "payload" THEN DictV(payload)
         ELSE MessageValue(kinds[place(FALSE, key)], place(FALSE, key))]

\* events with every combination of kinds at the six places, and events
\* whose payload is not a dict
SampleMessageEvents ==
  {MessageEvent(kinds) : kinds \in [1..Len(key_paths) -> MessageKinds]}
  \cup {[payload |-> value, last_result |-> StrV(<<"r">>)] :
          value \in {NoneV, IntV(1), StrV(<<"p">>)}}
  \cup {[payload |-> value] : value \in {NoneV, StrV(<<"p">>)}}

InitEvent ==
  /\ OrchIdle
  /\ review_text = <<>>
  /\ call = NoCall
  /\ items_arg = <<>>
  /\ data_arg \in SampleTurnEvents \cup SampleMessageEvents
  /\ threads = NoThreads
  /\ CoordIdle

CallTurnComplete ==
  /\ call = NoCall
  /\ call' = [fn |-> "is_codex_turn_complete",
              ret |-> autofix_logic_is_codex_turn_complete(data_arg)]
  /\ UNCHANGED <<orchVars, review_text, items_arg, data_arg, threads, coordVars>>

CallExtractMessage ==
  /\ call = NoCall
  /\ call' = [fn |-> "extract_codex_final_message",
              ret |-> extract_codex_final_message(data_arg)]
  /\ UNCHANGED <<orchVars, review_text, items_arg, data_arg, threads, coordVars>>

NextEvent ==
  \/ CallTurnComplete
  \/ CallExtractMessage

SpecEvent == InitEvent /\ [][NextEvent]_vars

(***************************************************************************)
(* Claims about the event functions                                        *)
(***************************************************************************)
\* the value an event holds under a key, at the top level or in its payload;
\* None when it holds nothing there
HeldAt(data, in_payload, key) ==
  IF ~in_payload
    THEN IF key \in DOMAIN data THEN data[key] ELSE NoneV
  ELSE IF /\ "payload" \in DOMAIN data
          /\ data["payload"].t = "dict"
          /\ key \in DOMAIN data["payload"].v
    THEN data["payload"].v[key]
  ELSE NoneV

\* the places of the final message in their order of priority
ClaimedPlaces ==
  <<[in_payload |-> TRUE, key |-> "last-assistant-message"],
    [in_payload |-> TRUE, key |-> "last_assistant_message"],
    [in_payload |-> FALSE, key |-> "last-assistant-message"],
    [in_payload |-> FALSE, key |-> "last_assistant_message"],
    [in_payload |-> TRUE, key |-> "last_result"],
    [in_payload |-> FALSE, key |-> "last_result"]>>

\* a string with a character that is not white space
HasContent(value) ==
  /\ value.t = "str"
  /\ \E i \in 1..Len(value.v) : value.v[i] \notin Whitespace

\* C23: extract_codex_final_message returns the value of the first place, in
\* the order payload.last-assistant-message, payload.last_assistant_message,
\* last-assistant-message, last_assistant_message, payload.last_result,
\* last_result, that holds a string with non-whitespace content, and None
\* when no place holds one.
C23_FirstMessageInPriorityOrder ==
  call.fn = "extract_codex_final_message" =>
    LET at(i) == HeldAt(data_arg, ClaimedPlaces[i].in_payload, ClaimedPlaces[i].key)
        good == {i \in 1..Len(ClaimedPlaces) : HasContent(at(i))}
    IN  IF good = {} THEN call.ret = NoneV
        ELSE \E i \in good : (\A j \in good : i <= j) /\ call.ret = at(i)

\* a blank first place and a number at the top level are passed over, the
\* second place wins over last_result and comes back with its white space
C23_Witness ==
  /\ call.fn = "extract_codex_final_message"
  /\ HeldAt(data_arg, TRUE, "last-assistant-message") = StrV(<<" ", "\t">>)
  /\ HeldAt(data_arg, FALSE, "last-assistant-message") = IntV(3)
  /\ HasContent(HeldAt(data_arg, FALSE, "last_result"))
  /\ call.ret = StrV(<<" ", "m", "2", "\n">>)
  /\ call.ret = HeldAt(data_arg, TRUE, "last_assistant_message")

\* the name a value stands for: a string without the white space around it,
\* in lower case, each "/", "_" and white-space character turned into "-"
NameOf(value) ==
  IF value.t # "str" THEN <<>>
  ELSE LET s == lower(Trimmed(value.v))
       IN  [i \in 1..Len(s) |->
              IF s[i] \in {"/", "_"} \cup Whitespace THEN "-" ELSE s[i]]

EndsIn(s, suffix) == \E k \in 0..Len(s) : SubSeq(s, k + 1, Len(s)) = suffix

ClaimedSuffixes ==
  {<<"-", "c", "o", "m", "p", "l", "e", "t", "e">>,
   <<"-", "c", "o", "m", "p", "l", "e", "t", "e", "d">>,
   <<"-", "d", "o", "n", "e">>,
   <<"-", "f", "i", "n", "i", "s", "h", "e", "d">>}

ClaimedStatuses ==
  {<<"c", "o", "m", "p", "l", "e", "t", "e">>,
   <<"c", "o", "m", "p", "l", "e", "t", "e", "d">>, <<"d", "o", "n", "e">>,
   <<"f", "i", "n", "i", "s", "h", "e", "d">>,
   <<"s", "t", "o", "p", "p", "e", "d">>,
   <<"s", "u", "c", "c", "e", "s", "s">>, <<"o", "k">>}

\* one of the four conditions under which an event is a finished turn
ClaimedDone(data) ==
  \/ HeldAt(data, FALSE, "codex_is_done") = BoolV(TRUE)
  \/ \E p \in [in_payload : {FALSE}, key : {"codex_event_type", "event_type",
                                            "type", "hook_event_name"}]
          \cup [in_payload : {TRUE}, key : {"type", "event_type",
                                            "hook_event_name", "event"}] :
       LET name == NameOf(HeldAt(data, p.in_payload, p.key))
       IN  name \in done_tokens \/ \E suffix \in ClaimedSuffixes : EndsIn(name, suffix)
  \/ \E in_payload \in BOOLEAN :
       NameOf(HeldAt(data, in_payload, "status")) \in ClaimedStatuses
  \/ \E in_payload \in BOOLEAN, key \in {"done", "complete"} :
       truthy(HeldAt(data, in_payload, key))

\* C24: is_codex_turn_complete returns true exactly when codex_is_done is
\* True, or an event-name candidate, in lower case with "/", "_" and white
\* space turned into "-", is a listed done token or ends in -complete,
\* -completed, -done or -finished, or a status at the top level or in the
\* payload is one of complete, completed, done, finished, stopped, success,
\* ok, or a done or complete flag at the top level or in the payload is
\* truthy; it returns false for every other event.
C24_TurnCompleteExactly ==
  call.fn = "is_codex_turn_complete" =>
    (call.ret <=> ClaimedDone(data_arg))

\* an event name in mixed case with underscores counts as a finished turn
C24_Witness ==
  /\ call.fn = "is_codex_turn_complete"
  /\ data_arg = [event_type |-> StrV(<<"A", "g", "e", "n", "t", "_", "T", "u", "r", "n", "_",
                                       "C", "o", "m", "p", "l", "e", "t", "e">>)]
  /\ call.ret = TRUE

(***************************************************************************)
(* Claims about the hook events of a run                                   *)
(***************************************************************************)
\* the step hands the event to the run
Delivers(data) ==
  w' = on_hook_event(w, active_change_sessions, active_codex_sessions, data)

\* C25: a step that hands the run a hook event whose session id is not the
\* bound reviewer session id (another id, or none) never takes the run out
\* of stage reviewing.
C25_OnlyBoundEventLeavesReviewing ==
  [][(w.running /\ w.stage = "reviewing" /\ w'.stage # "reviewing") =>
       \A data \in HookEvents :
         extract_session_id(data) # w.codex_session_id => ~Delivers(data)]_vars

\* a Stop event that carries the bound fixer session id
BoundStop(data) ==
  /\ data.event = "Stop"
  /\ extract_session_id(data) # ""
  /\ extract_session_id(data) = w.droid_session_id

\* C26: a step takes the run from fixing to checking only by handing it a
\* Stop event whose non-empty session id is the bound fixer session id, and
\* that step cancels the stage timer and starts one delay timer; when the
\* delay timer runs and the run is still running, the cycle count grows by
\* exactly one, the stage becomes reviewing and exactly one review trigger
\* is dispatched; when the run is no longer running it changes none of them.
C26_BoundStopStartsNextReview ==
  [][/\ (w.stage = "fixing" /\ w'.stage = "checking") =>
          /\ \E data \in HookEvents : BoundStop(data) /\ Delivers(data)
          /\ \A data \in HookEvents : ~BoundStop(data) => ~Delivers(data)
          /\ w'.stage_timer = NoTimer
          /\ w'.next_cycle_timers = w.next_cycle_timers + 1
          /\ w'.cycle = w.cycle
          /\ w'.review_triggers = w.review_triggers
     /\ (w'.next_cycle_timers < w.next_cycle_timers) =>
          IF w.running
            THEN /\ w'.cycle = w.cycle + 1
                 /\ w'.stage = "reviewing"
                 /\ w'.review_triggers = w.review_triggers + 1
            ELSE /\ w'.cycle = w.cycle
                 /\ w'.stage = w.stage
                 /\ w'.review_triggers = w.review_triggers
     /\ (w.stage = "checking" /\ w'.stage = "reviewing") =>
          w'.next_cycle_timers < w.next_cycle_timers]_vars

\* the second review has been started after a fix of the first cycle, with
\* an armed stage timer of its own
C26_Witness ==
  /\ w.running
  /\ w.stage = "reviewing"
  /\ w.cycle = 2
  /\ w.review_triggers = 2
  /\ answered_fixes = 1
  /\ w.next_cycle_timers = 0
  /\ w.stage_timer = [state |-> "pending", cycle |-> 2, stage |-> "reviewing"]

(***************************************************************************)
(* The ready events of a run, thread by thread.  Hook events are handled   *)
(* one after the other on the thread of the hook server; every retry of a  *)
(* deferred event runs on the thread of its own threading.Timer.  Nothing  *)
(* in AutoFixWindow is locked, so a thread that has marked its worker      *)
(* initialized may be overtaken before it calls _check_both_ready, and     *)
(* again before it calls _start_review_cycle.                              *)
(***************************************************************************)
\* ready events of a run that are deferred
MaxReadyDeferred == 2

ReadySession(worker_type) == IF worker_type = "codex" THEN CodexSession ELSE DroidSession

ReadyTab(worker_type) == IF worker_type = "codex" THEN CodexTab ELSE DroidTab

ReadyEventOf(worker_type) ==
  HookEvent(IF worker_type = "codex" THEN "codex-notify" ELSE "SessionStart",
            ReadySession(worker_type), "", FALSE, <<>>)

initialized(w0, worker_type) ==
  IF worker_type = "codex" THEN w0.codex_initialized ELSE w0.droid_initialized

\* _accept_codex_init / _accept_droid_init up to the call of
\* _check_both_ready: the flag and the session id of the worker
mark_initialized(w0, worker_type, session_id) ==
  IF worker_type = "codex"
    THEN [w0 EXCEPT !.codex_initialized = TRUE,
                    !.codex_session_id = IF session_id # "" THEN session_id ELSE @]
    ELSE [w0 EXCEPT !.droid_initialized = TRUE,
                    !.droid_session_id = IF session_id # "" THEN session_id ELSE @]

\* the thread enters _accept_*_init with the run as it has left it so far
BeginAccept(id, w0, worker_type, session_id) ==
  IF initialized(w0, worker_type)
    THEN /\ w' = w0
         /\ UNCHANGED threads
    ELSE /\ w' = mark_initialized(w0, worker_type, session_id)
         /\ threads' = [threads EXCEPT ![id] = [pc |-> "check_both_ready"]]

\* on_hook_event for the ready event of a worker that is not initialized
ReadyEvent ==
  /\ registered
  /\ threads["http"] = IdleThread
  /\ w.running
  /\ \E worker_type \in {"codex", "droid"} :
       LET session_id == extract_session_id(ReadyEventOf(worker_type))
           matched == resolve_tab_for_session(active_change_sessions,
                                              active_codex_sessions, session_id)
       IN  /\ ~initialized(w, worker_type)
           /\ IF matched = ReadyTab(worker_type)
                THEN /\ BeginAccept("http", w, worker_type, session_id)
                     /\ UNCHANGED deferred
              ELSE IF matched # ""
                THEN UNCHANGED <<w, threads, deferred>>
              ELSE /\ deferred < MaxReadyDeferred
                   /\ deferred' = deferred + 1
                   /\ w' = defer_init_event(w, ReadyEventOf(worker_type),
                                            worker_type, InitRetries)
                   /\ UNCHANGED threads
  /\ UNCHANGED <<shown, registered, active_change_sessions, active_codex_sessions,
                 stopped, answered_reviews, answered_fixes, review_text, call,
                 items_arg, data_arg, coordVars>>

\* the closure retry on the thread of its timer
RetryThread ==
  /\ \E t \in w.retry_timers, id \in ReadyThreads \ {"http"} :
       LET w0 == [w EXCEPT !.retry_timers = @ \ {t}]
           session_id == extract_session_id(t.data)
           matched == resolve_tab_for_session(active_change_sessions,
                                              active_codex_sessions, session_id)
       IN  /\ threads[id] = IdleThread
           /\ IF ~w0.running
                THEN w' = w0 /\ UNCHANGED threads
              ELSE IF matched = ReadyTab(t.worker_type)
                THEN BeginAccept(id, w0, t.worker_type, session_id)
              ELSE IF matched # ""
                THEN w' = w0 /\ UNCHANGED threads
              ELSE /\ w' = defer_init_event(w0, t.data, t.worker_type, t.retries_left - 1)
                   /\ UNCHANGED threads
  /\ UNCHANGED <<shown, registered, active_change_sessions, active_codex_sessions,
                 stopped, answered_reviews, answered_fixes, deferred, review_text,
                 call, items_arg, data_arg, coordVars>>

\* _check_both_ready up to the call of _start_review_cycle
CheckBothReady ==
  /\ \E id \in ReadyThreads :
       /\ threads[id].pc = "check_both_ready"
       /\ threads' = [threads EXCEPT ![id] =
                        IF w.running /\ w.codex_initialized /\ w.droid_initialized
                          THEN [pc |-> "start_review_cycle"]
                          ELSE IdleThread]
  /\ UNCHANGED <<orchVars, review_text, call, items_arg, data_arg, coordVars>>

\* _start_review_cycle, the last call of the thread
StartReviewCycle ==
  /\ \E id \in ReadyThreads :
       /\ threads[id].pc = "start_review_cycle"
       /\ threads' = [threads EXCEPT ![id] = IdleThread]
  /\ w' = start_review_cycle(w)
  /\ UNCHANGED <<shown, registered, active_change_sessions, active_codex_sessions,
                 stopped, answered_reviews, answered_fixes, deferred, review_text,
                 call, items_arg, data_arg, coordVars>>

NextReady ==
  \/ Show
  \/ StartLoopTimer
  \/ TrackChangeSession
  \/ TrackCodexSession
  \/ ReadyEvent
  \/ RetryThread
  \/ CheckBothReady
  \/ StartReviewCycle
  \/ Stop

SpecReady == Init /\ [][NextReady]_vars

(***************************************************************************)
(* Claims about the start of the first review                              *)
(***************************************************************************)
\* C27: whatever the order and the interleaving of the two ready events and
\* of their retries, the first review is started once and only with both
\* workers accepted: at most one review trigger, a cycle count of at most 1,
\* and stage reviewing only with both workers initialized and cycle count 1.
C27_FirstReviewStartedOnce ==
  /\ w.review_triggers <= 1
  /\ w.cycle <= 1
  /\ (w.stage = "reviewing" \/ w.review_triggers > 0) =>
       /\ w.codex_initialized
       /\ w.droid_initialized
       /\ w.cycle = 1

(***************************************************************************)
(* Claims about the timers of a run                                        *)
(***************************************************************************)
\* the tracking tables hold the session id, for the tab or for any tab
TrackedFor(session_id, tab) ==
  \/ \E i \in 1..Len(active_change_sessions) :
       active_change_sessions[i] = [tab |-> tab, sessionId |-> session_id]
  \/ \E i \in 1..Len(active_codex_sessions) :
       active_codex_sessions[i] = [tab |-> tab, sessionId |-> session_id]

Tracked(session_id) ==
  \E tab \in {CodexTab, DroidTab, OtherTab} : TrackedFor(session_id, tab)

\* the step leaves of the run everything but its retry timers as it was
OnlyRetryTimersChange ==
  w' = [w EXCEPT !.retry_timers = w'.retry_timers]

\* C28: a deferred ready event is first retried with 5 attempts left and
\* every failed attempt leaves one attempt less, so it is re-resolved at most
\* 5 times; the attempt at which the tables map its session id to the run's
\* own tab of that worker accepts it; the fifth failed attempt drops it and
\* changes nothing else of the run (an uninitialized worker stays
\* uninitialized, the stage stays where it was); an attempt made when the run
\* is no longer running changes nothing and starts no further retry.
C28_AtMostFiveRetries ==
  [][/\ \A t \in w'.retry_timers \ w.retry_timers :
          IF w.retry_timers \subseteq w'.retry_timers
            THEN t.retries_left = 5
            ELSE \E u \in w.retry_timers \ w'.retry_timers :
                   t = [u EXCEPT !.retries_left = u.retries_left - 1]
     /\ \A t \in w.retry_timers \ w'.retry_timers :
          LET session_id == t.data.session_id
              others == w.retry_timers \ {t}
          IN  /\ t.retries_left \in 1..5
              /\ IF ~w.running
                   THEN w'.retry_timers = others /\ OnlyRetryTimersChange
                 ELSE IF session_id # "" /\ TrackedFor(session_id, ReadyTab(t.worker_type))
                   THEN /\ w'.retry_timers = others
                        /\ initialized(w', t.worker_type)
                        /\ ~initialized(w, t.worker_type) =>
                             session_id = IF t.worker_type = "codex"
                                            THEN w'.codex_session_id
                                            ELSE w'.droid_session_id
                 ELSE IF session_id # "" /\ Tracked(session_id)
                   THEN w'.retry_timers = others /\ OnlyRetryTimersChange
                 ELSE IF t.retries_left > 1
                   THEN /\ w'.retry_timers =
                             others \cup {[t EXCEPT !.retries_left = t.retries_left - 1]}
                        /\ OnlyRetryTimersChange
                 ELSE /\ w'.retry_timers = others
                      /\ OnlyRetryTimersChange]_vars

\* four attempts of a reviewer's ready event have failed and the fifth is
\* due, with the run in init and the reviewer not initialized
C28_Witness ==
  /\ w.running
  /\ w.stage = "init"
  /\ ~w.codex_initialized
  /\ \E t \in w.retry_timers :
       /\ t.worker_type = "codex"
       /\ t.retries_left = 1
       /\ ~Tracked(t.data.session_id)

\* C29: when the init fallback timer fires while the run is running and a
\* worker has not been accepted as ready, the run ends with one failure
\* result; when it fires with both workers accepted, or with the run no
\* longer running, nothing but the timer itself changes: stage, cycle count
\* and running flag stay and no result is reported.
C29_InitFallbackTimer ==
  [][(w.init_timer /\ ~w'.init_timer) =>
       IF w.running /\ (~w.codex_initialized \/ ~w.droid_initialized)
         THEN /\ ~w'.running
              /\ Len(w'.completions) = Len(w.completions) + 1
              /\ ~w'.completions[Len(w'.completions)].success
         ELSE w' = [w EXCEPT !.init_timer = FALSE]]_vars

\* the timer has ended a run in which only the fixer had been accepted
C29_Witness ==
  /\ ~w.running
  /\ ~w.init_timer
  /\ w.droid_initialized
  /\ ~w.codex_initialized
  /\ Len(w.completions) = 1
  /\ w.completions[1] = [success |-> FALSE, message |-> "init_timeout", cycles |-> 0]

\* the step in which the pending stage timer expires and aborts the run
ExpiryAborts ==
  /\ w.stage_timer.state = "pending"
  /\ ~w'.running
  /\ Len(w'.completions) = Len(w.completions) + 1
  /\ w'.completions[Len(w'.completions)] =
       [success |-> FALSE, message |-> "stage_timeout", cycles |-> w.cycle]

\* C30: with stage timeouts enabled a stage timer is armed only while the
\* stage is reviewing or fixing, and it is the timer of that stage and
\* cycle (the run holds one timer at a time); an expiry aborts the run only
\* in the stage and the cycle for which the timer was armed.
C30_StageTimerOnlyForItsStage ==
  /\ [](w.stage_timer.state = "pending" =>
          /\ w.stage_timeout_secs > 0
          /\ w.stage \in {"reviewing", "fixing"}
          /\ w.stage = w.stage_timer.stage
          /\ w.cycle = w.stage_timer.cycle)
  /\ [][ExpiryAborts =>
          /\ w.running
          /\ w.stage = w.stage_timer.stage
          /\ w.cycle = w.stage_timer.cycle]_vars

\* the completions that a step hands to the web page
NewlyFired == {fired'[n] : n \in (Len(fired) + 1)..Len(fired')}

\* the pending table of its session holds the registration of a completion
InTable(f) ==
  \E i \in 1..Len(pending[f.session]) :
    pending[f.session][i].id = f.id /\ pending[f.session][i].reg = f.reg

\* the step is the stop of the session s
StopsSession(s) == term_ready[s] /\ ~term_ready'[s]

\* C31: the stop of a session leaves no pending completion of the session in
\* the pending table, and a completion fires only while its registration is
\* in the table, so that none registered before a stop fires after it,
\* wherever the reader thread of the session stands in an output chunk.
C31_StopDropsPendingCompletions ==
  [][/\ \A s \in Sessions : StopsSession(s) => pending'[s] = <<>>
     /\ \A f \in NewlyFired : f.reg # 0 => InTable(f)]_vars

\* the reader thread of session s is inside its scan of the session's map
ReaderScans(s) == reader[s].state = "loop" /\ ~reader[s].detached

\* C32: the accesses to the pending map of a session exclude each other:
\* while the reader thread scans the map for an output chunk no registration
\* and no staleness sweep changes that map, and no reader thread is ever
\* ended by a change made to the map under its scan.
C32_PendingMapExclusive ==
  /\ [][\A s \in Sessions :
         ReaderScans(s) /\ pending'[s] # pending[s] => reader'[s] # reader[s]]_vars
  /\ [](\A s \in Sessions : reader[s].state # "dead")

\* the last TailLen characters of the stripped buffer end in > or the heavy
\* angle and then whitespace only, or hold the text How can I help
ShowsAgentPrompt(buffer) ==
  LET tail == LastChars(ansi_sub(buffer), TailLen)
  IN  \/ \E i \in 1..Len(tail) :
           /\ tail[i] \in {">", HEAVY}
           /\ \A j \in (i + 1)..Len(tail) : tail[j] \in Spaces
      \/ \E i \in 1..(Len(tail) - Len(HowCanIHelp) + 1) :
           \A j \in 1..Len(HowCanIHelp) : tail[i + j - 1] = HowCanIHelp[j]

\* the completion was registered with the agent prompt pattern
AgentPattern(f) == \E q \in SampleRequests : q.id = f.id /\ q.pattern = "droid"

ExitedNormally == ~procs[session.pid].live /\ procs[session.pid].status % 128 = 0
ExitCode == procs[session.pid].status \div 256

\* C34: when the reader loop of a session ends the session is marked dead
\* and the exit callback is called once, with the exit code of the shell
\* when the shell has exited of its own accord and with -1 otherwise (the
\* shell is still running or was ended by a signal); no session calls the
\* exit callback more often than it has started a reader.
C34_ExitCallbackOnceWithCode ==
  /\ [][hist'.exits # hist.exits =>
          /\ ~session'.alive
          /\ hist'.exits =
               Append(hist.exits, IF ExitedNormally THEN ExitCode ELSE -1)]_vars
  /\ [](Len(hist.exits) <= hist.readers)

\* C35: a run emits at most one completion notification, whatever hook
\* events, send failures and timers reach it and in whatever order.
C35_AtMostOneCompletion == Len(w.completions) <= 1

\* the run has been started and is no longer running
RunEnded == shown /\ ~w.running

\* C36: the end of a run is absorbing: from then on the run is never running
\* again, its stage is idle, its cycle count keeps its value and neither a
\* review trigger nor a fix trigger is dispatched, whatever events, send
\* failures and timers arrive.
C36_EndIsAbsorbing ==
  /\ [](RunEnded => w.stage = "idle")
  /\ [][RunEnded =>
          /\ ~w'.running
          /\ w'.cycle = w.cycle
          /\ w'.review_triggers = w.review_triggers
          /\ w'.fix_triggers = w.fix_triggers]_vars

\* C36 witness: a run stopped by hand while fixing, whose delayed fix trigger
\* then ran and reported a failure, and which is idle with its cycle count
C36_Witness ==
  /\ RunEnded
  /\ stopped
  /\ w.stage = "idle"
  /\ w.cycle = 1
  /\ w.do_fix_timers = 0
  /\ w.fix_triggers = 0
  /\ Len(w.completions) = 1
  /\ w.completions[1].message = "fix_send_failed"

\* C37: the fixer is triggered before its completion is accepted, and only
\* while the stage is fixing: when a step takes the stage from fixing to
\* checking no delayed fix trigger is still waiting, so that the trigger of
\* the cycle has been dispatched, and a step that dispatches a fix trigger
\* starts in the stage fixing.
C37_FixTriggeredBeforeAccepted ==
  [][/\ (w.stage = "fixing" /\ w'.stage = "checking") =>
          (w.do_fix_timers = 0 /\ w.fix_triggers > 0)
     /\ w'.fix_triggers > w.fix_triggers => w.stage = "fixing"]_vars

\* the send failure of the worker in tab concerns the session that the
\* active stage has targeted
ConcernsStage(worker_type, tab_id) ==
  \/ worker_type = "codex" /\ tab_id = CodexTab /\ w.stage = "reviewing"
  \/ worker_type = "droid" /\ tab_id = DroidTab /\ w.stage = "fixing"

\* C38: a send failure that does not concern the session targeted by the
\* active stage leaves the run as it is: the stage, the cycle count, the
\* running flag and the armed stage timer keep their values.
C38_OtherSendFailureChangesNothing ==
  [][\A worker_type \in {"codex", "droid"}, tab_id \in {CodexTab, DroidTab, OtherTab} :
       (SendFailedStep(worker_type, tab_id) /\ ~ConcernsStage(worker_type, tab_id)) =>
         /\ w'.stage = w.stage
         /\ w'.cycle = w.cycle
         /\ w'.running = w.running
         /\ w'.stage_timer = w.stage_timer]_vars

\* the event belongs to the stage the run is in: a ready event of a worker
\* that is not initialized, a finished reviewer turn while reviewing, or a
\* Stop event while fixing
BelongsToStage(data) ==
  \/ data.event = "codex-notify" /\ ~w.codex_initialized
  \/ data.event = "SessionStart" /\ ~w.droid_initialized
  \/ data.event = "codex-notify" /\ data.done /\ w.stage = "reviewing"
  \/ data.event = "Stop" /\ w.stage = "fixing"

\* the timers of the run
TimersOf(win) ==
  <<win.stage_timer, win.start_loop_timer, win.init_timer, win.retry_timers,
    win.do_fix_timers, win.next_cycle_timers>>

\* C39: a hook event is accepted only in the stage it belongs to: a step that
\* changes the stage, the cycle count, a bound session id or a timer of the
\* run does not hand the run an event that does not belong to its stage.
C39_EventsOnlyInTheirStage ==
  [][(\/ w'.stage # w.stage
      \/ w'.cycle # w.cycle
      \/ w'.codex_session_id # w.codex_session_id
      \/ w'.droid_session_id # w.droid_session_id
      \/ TimersOf(w') # TimersOf(w)) =>
       \A data \in HookEvents : ~BelongsToStage(data) => ~Delivers(data)]_vars

\* C39 witness: a Stop event of the bound fixer session, taken in the stage
\* fixing before any fix trigger was answered, has moved the run to checking
C39_Witness ==
  /\ w.running
  /\ w.stage = "checking"
  /\ w.cycle = 1
  /\ answered_fixes = 0
  /\ w.next_cycle_timers = 1

\* the flush timers of a session that have been started and have not run
PendingFlushes(s) == {t \in flush_threads : t.session = s /\ ~t.ran}

\* C40: between the critical sections of its appends and flushes, every
\* session has at most one flush timer waiting, and a session whose batch
\* holds bytes has the scheduled flag set and exactly one flush timer waiting
\* (so that the bytes of the batch are delivered in the end).
C40_OneFlushTimerPerBatch ==
  \A s \in Sessions :
    /\ Cardinality(PendingFlushes(s)) <= 1
    /\ batch[s] # <<>> => (scheduled[s] /\ Cardinality(PendingFlushes(s)) = 1)

====
